---- MODULE Spec2Model ----
(***************************************************************************)
(* AiRail: the expansion orchestrator (expandNetwork and its three         *)
(* oracles), the fleet balancer and the graph store they share.            *)
(*                                                                         *)
(* The server is one Node.js process: a handler runs without interruption  *)
(* from one await to the next.  Every action below is one such run: the    *)
(* code between two suspension points of expandNetwork, or one whole       *)
(* synchronous store call.  Time is the value Date.now() returns.  It is   *)
(* read when a request for a cycle arrives and when the Strategy Oracle    *)
(* answers, so these two actions say how long after the run before them    *)
(* they happen; cycles in flight are waiting for their oracles meanwhile.  *)
(***************************************************************************)
EXTENDS Integers, Sequences, FiniteSets, TLC

\* ------------------------------------------------------------------ bounds

\* requests to /api/expand the server holds at the same time
MaxInFlight == 2
\* invocations of expandNetwork in one run (Spec)
MaxCalls == 2
\* resets of the database in one run (Spec)
MaxResets == 1
\* rows of the events table the model keeps
EventWindow == 3
\* invocations of expandNetwork in one run (SpecTime)
MaxTimedCalls == 3
\* invocations of expandNetwork in one run (SpecOverlap)
MaxOverlapCalls == 3
\* stations and trains of a database the fleet check is called on (SpecFleet)
MaxStations == 10
MaxFleet == 3
\* calls of checkFleetBalance in one run (SpecFleet)
MaxFleetRuns == 2
\* ticks of the page that are suspended at the same time
MaxTicksInFlight == 2
\* dispatch requests in one run (SpecMove)
MaxDispatches == 3
\* dispatch requests in one run (SpecStep)
MaxStepDispatches == 2
\* rows of a table of the store (SpecStore)
MaxStoreRows == 3
\* dispatch requests in one run (SpecEta)
MaxEtaDispatches == 2
\* rounds of the auto-dispatch timer in one run (SpecAuto)
MaxAutoRounds == 2
\* trains a round of the auto-dispatch draws a random number for
MaxRoundTrains == 2

\* ------------------------------------------------------- program constants

COOLDOWN_MS == 60000
BRIEFING_INTERVAL == 2 * 60 * 60 * 1000
maxAttempts == 3
TRAINS_PER_STATIONS == 3
SPEED_BASE == 100
SPEED_SPAN == 60
PIXELS_PER_KM == 4
SIMULATION_SPEED == 60
TICK_RATE == 50

\* Date.now() when the process starts: an epoch time, far above both
\* intervals, so the zero-initialised timestamps never throttle the first call.
BootTime == 2 * BRIEFING_INTERVAL

\* The time between a request for a cycle and the run before it: one
\* millisecond, just under the cooldown, the cooldown, and just under the
\* planning interval (a millisecond more reaches it).
Delays == {1, COOLDOWN_MS - 1, COOLDOWN_MS, BRIEFING_INTERVAL - 1}

\* The time between the Strategy Oracle's answer and the run before it: none
\* to speak of, or a millisecond.
ReplyDelays == {0, 1}

\* ------------------------------------------------------ JavaScript values

\* A JSON value an oracle may put in a field: undefined (field missing), a
\* boolean, a number or a string.
Undef == [t |-> "undefined", b |-> FALSE, n |-> 0, s |-> ""]
JBool(v) == [t |-> "boolean", b |-> v, n |-> 0, s |-> ""]
JNum(v) == [t |-> "number", b |-> FALSE, n |-> v, s |-> ""]
JStr(v) == [t |-> "string", b |-> FALSE, n |-> 0, s |-> v]

\* JavaScript truthiness, as `!verification.valid` and `dailyPlan &&` use it.
Truthy(v) ==
  CASE v.t = "boolean" -> v.b
    [] v.t = "number" -> v.n # 0
    [] v.t = "string" -> v.s # ""
    [] OTHER -> FALSE

\* The strings of digits the model's oracles use, with the number each reads as.
DigitStrings == {<<"1", 1>>, <<"2", 2>>, <<"3", 3>>, <<"4", 4>>}

\* Number(v): a number is itself, a string of digits is the number it spells,
\* any other string and undefined are NaN, a boolean is 0 or 1.
Number(v) ==
  CASE v.t = "number" -> [nan |-> FALSE, n |-> v.n]
    [] v.t = "boolean" -> [nan |-> FALSE, n |-> IF v.b THEN 1 ELSE 0]
    [] v.t = "string" ->
         IF v.s = "" THEN [nan |-> FALSE, n |-> 0]
         ELSE IF \E p \in DigitStrings : p[1] = v.s
              THEN [nan |-> FALSE, n |-> (CHOOSE p \in DigitStrings : p[1] = v.s)[2]]
              ELSE [nan |-> TRUE, n |-> 0]
    [] OTHER -> [nan |-> TRUE, n |-> 0]

\* ------------------------------------------------------------ graph store

\* SQL NULL in the nullable columns of trains
NULL == 0

SeedStations ==
  << [id |-> 1, name |-> JStr("Central Junction"), x |-> 50, y |-> 300],
     [id |-> 2, name |-> JStr("Northfield Terminal"), x |-> 650, y |-> 300] >>

SeedTracks == << [id |-> 1, station_a_id |-> 1, station_b_id |-> 2] >>

SeedTrains ==
  << [id |-> 1, name |-> <<"Express", 1>>, current_station_id |-> 1,
      target_station_id |-> NULL, x |-> 50, y |-> 300, speed_kmh |-> 80,
      departure_time |-> NULL, status |-> "idle"] >>

\* The rows of the five tables and the AUTOINCREMENT counters of
\* sqlite_sequence, as initDatabase leaves them in an empty database.
SeedTables ==
  [stations |-> SeedStations,
   tracks |-> SeedTracks,
   trains |-> SeedTrains,
   events |-> << [type |-> "SYSTEM", message |-> "initialized"] >>,
   sqlite_sequence |-> [stations |-> 2, tracks |-> 1, trains |-> 1],
   settings |-> [auto_enabled |-> "false"]]

\* What db.export() gives: the tables of the database in memory.
Tables(d) ==
  [stations |-> d.stations, tracks |-> d.tracks, trains |-> d.trains,
   events |-> d.events, sqlite_sequence |-> d.sqlite_sequence,
   settings |-> d.settings]

\* The state of the module: the database in memory, with the tables `tb`,
\* and the file simulation.db on disk, with the image `image`.
Store(tb, image) ==
  [stations |-> tb.stations, tracks |-> tb.tracks, trains |-> tb.trains,
   events |-> tb.events, sqlite_sequence |-> tb.sqlite_sequence,
   settings |-> tb.settings, file |-> image]

\* fs.writeFileSync(dbPath, Buffer.from(db.export()))
saveDatabase(d) == [d EXCEPT !.file = Tables(d)]

\* initDatabase on an empty database: the seed rows, saved.
SeedDatabase == saveDatabase(Store(SeedTables, SeedTables))

\* initDatabase when simulation.db exists: the database in memory is the one
\* read from the file, and the seed is inserted, and saved, if it has no
\* station.  The file is not written otherwise.
initDatabase(d) ==
  IF Len(d.file.stations) = 0 THEN SeedDatabase ELSE Store(d.file, d.file)

\* SELECT * FROM stations ORDER BY id: the rows are kept in id order.
getStations(d) == d.stations

getTrains(d) == d.trains

\* SELECT * FROM tracks
getTracks(d) == d.tracks

\* A sequence, last element first.
Reversed(q) == [i \in 1..Len(q) |-> q[Len(q) + 1 - i]]

\* SELECT * FROM events ORDER BY id DESC LIMIT ?: the newest rows, newest
\* first (the model keeps no more rows than any caller asks for).
getRecentEvents(d) == Reversed(d.events)

\* The body of the answer of GET /api/state.
stateRoute(d) ==
  [stations |-> getStations(d), trains |-> getTrains(d), events |-> getRecentEvents(d)]

\* `data.f` for an object parsed from JSON: the value of the field, or
\* undefined if the object has no such field.
Field(data, f) ==
  IF f \in DOMAIN data THEN [defined |-> TRUE, rows |-> data[f]]
  ELSE [defined |-> FALSE, rows |-> << >>]

StationIds(d) == {d.stations[i].id : i \in 1..Len(d.stations)}

\* The last `k` elements of a sequence.
LastRows(q, k) == IF Len(q) <= k THEN q ELSE SubSeq(q, Len(q) - k + 1, Len(q))

\* INSERT INTO events.  Of the table the model keeps the newest EventWindow
\* rows: the program only ever reads the newest ones back (getRecentEvents).
addEvent(d, type, message) ==
  saveDatabase(
    [d EXCEPT !.events = LastRows(Append(@, [type |-> type, message |-> message]),
                                  EventWindow)])

\* stations.name is TEXT NOT NULL: binding a missing name makes db.run throw
\* before anything is written.
addStationThrows(name) == name.t = "undefined"

\* INSERT INTO stations; the new row takes the next AUTOINCREMENT id.
addStation(d, name, x, y) ==
  LET newId == d.sqlite_sequence.stations + 1
  IN saveDatabase(
       [d EXCEPT !.stations = Append(@, [id |-> newId, name |-> name, x |-> x, y |-> y]),
                 !.sqlite_sequence.stations = newId])

\* What addStation returns: SELECT last_insert_rowid(), run after
\* saveDatabase().  saveDatabase calls db.export(), and sql.js's export closes
\* the connection and opens it again; last_insert_rowid() belongs to the
\* connection and is 0 on one that has inserted nothing.  `kept` says whether
\* the rowid outlives the save: FALSE with sql.js as published, TRUE with an
\* export that keeps the connection.
lastStationId(d, kept) == IF kept THEN d.sqlite_sequence.stations ELSE 0

\* The two outcomes of last_insert_rowid() after a save.
RowidKept == BOOLEAN

\* Variant of addTrack: the row is inserted and saveDatabase() is not called.
addTrackUnsaved(d, a, b) ==
  LET newId == d.sqlite_sequence.tracks + 1
  IN [d EXCEPT !.tracks = Append(@, [id |-> newId, station_a_id |-> a, station_b_id |-> b]),
               !.sqlite_sequence.tracks = newId]

\* INSERT INTO tracks: no check of the two ids (foreign keys are not enforced).
addTrack(d, a, b) ==
  LET newId == d.sqlite_sequence.tracks + 1
  IN saveDatabase(
       [d EXCEPT !.tracks = Append(@, [id |-> newId, station_a_id |-> a, station_b_id |-> b]),
                 !.sqlite_sequence.tracks = newId])

\* Variant of addTrain: the speed is rounded up, 101 to 160.
addTrainRoundedUp(d, name, stationId, r) ==
  IF stationId \notin StationIds(d) THEN d
  ELSE LET st == CHOOSE s \in {d.stations[i] : i \in 1..Len(d.stations)} : s.id = stationId
           newId == d.sqlite_sequence.trains + 1
       IN saveDatabase(
            [d EXCEPT !.trains = Append(@,
                        [id |-> newId, name |-> name, current_station_id |-> stationId,
                         target_station_id |-> NULL, x |-> st.x, y |-> st.y,
                         speed_kmh |-> SPEED_BASE + r + 1, departure_time |-> NULL,
                         status |-> "idle"]),
                      !.sqlite_sequence.trains = newId])

\* INSERT INTO trains at the station's coordinates, idle, with the speed
\* 100 + floor(random * 60); nothing is written if the station is unknown.
\* `r` is the value floor(Math.random() * 60) took.
addTrain(d, name, stationId, r) ==
  IF stationId \notin StationIds(d) THEN d
  ELSE LET st == CHOOSE s \in {d.stations[i] : i \in 1..Len(d.stations)} : s.id = stationId
           newId == d.sqlite_sequence.trains + 1
       IN saveDatabase(
            [d EXCEPT !.trains = Append(@,
                        [id |-> newId, name |-> name, current_station_id |-> stationId,
                         target_station_id |-> NULL, x |-> st.x, y |-> st.y,
                         speed_kmh |-> SPEED_BASE + r, departure_time |-> NULL,
                         status |-> "idle"]),
                      !.sqlite_sequence.trains = newId])

\* Variant of resetDatabase: DELETE FROM tracks is left out.
resetDatabaseKeepTracks(d) ==
  saveDatabase(
    [d EXCEPT
       !.stations = SeedStations,
       !.tracks = Append(@, [id |-> 1, station_a_id |-> 1, station_b_id |-> 2]),
       !.trains = SeedTrains,
       !.events = << [type |-> "SYSTEM", message |-> "reset"] >>,
       !.sqlite_sequence = SeedTables.sqlite_sequence])

\* Variant of resetDatabase: the seed is in memory, the file is as it was.
resetDatabaseUnsaved(d) ==
  [d EXCEPT
     !.stations = SeedStations,
     !.tracks = SeedTracks,
     !.trains = SeedTrains,
     !.events = << [type |-> "SYSTEM", message |-> "reset"] >>,
     !.sqlite_sequence = SeedTables.sqlite_sequence]

\* DELETE FROM the four tables and sqlite_sequence, then the seed rows again,
\* then saveDatabase().  The settings table is not touched.
resetDatabase(d) ==
  saveDatabase(
    [d EXCEPT
       !.stations = SeedStations,
       !.tracks = SeedTracks,
       !.trains = SeedTrains,
       !.events = << [type |-> "SYSTEM", message |-> "reset"] >>,
       !.sqlite_sequence = SeedTables.sqlite_sequence])

\* INSERT OR REPLACE INTO settings, then saveDatabase().
setSetting(d, key, value) ==
  saveDatabase([d EXCEPT !.settings = [k \in (DOMAIN @) \cup {key} |->
                                         IF k = key THEN value ELSE @[k]]])

\* ------------------------------------------------- dispatch and movement

\* SELECT * FROM trains WHERE id = ?: the index of the row, 0 if there is none.
getTrain(d, id) ==
  IF \E k \in 1..Len(d.trains) : d.trains[k].id = id
  THEN CHOOSE k \in 1..Len(d.trains) : d.trains[k].id = id
  ELSE 0

\* SELECT * FROM stations WHERE id = ?: the index of the row, 0 if there is none.
getStation(stations, id) ==
  IF \E k \in 1..Len(stations) : stations[k].id = id
  THEN CHOOSE k \in 1..Len(stations) : stations[k].id = id
  ELSE 0

\* Math.sqrt(dx * dx + dy * dy) on the layouts of the model, where the root is
\* a whole number of units: the root of n between lo and hi; for any other n,
\* the largest whole number between lo and hi that is not above the root.
SqrtSearch[n \in Int, lo \in Int, hi \in Int] ==
  IF lo >= hi THEN lo
  ELSE LET mid == (lo + hi + 1) \div 2
       IN IF mid * mid <= n THEN SqrtSearch[n, mid, hi]
          ELSE SqrtSearch[n, lo, mid - 1]

SqrtBetween(n, lo, hi) == SqrtSearch[n, lo, hi]

Abs(v) == IF v < 0 THEN -v ELSE v

Hypot(dx, dy) == SqrtBetween(dx * dx + dy * dy, 0, Abs(dx) + Abs(dy))

\* Variant of dispatchReport: the minutes are cut to a whole number, not
\* rounded.
dispatchReportCut(train, targetStation) ==
  LET dx == targetStation.x - train.x
      dy == targetStation.y - train.y
      n == dx * dx + dy * dy
      reach == Abs(dx) + Abs(dy)
  IN [success |-> TRUE,
      distanceKm |-> (SqrtBetween(25 * n, 0, 5 * reach) + 1) \div 2,
      etaMinutes |-> (SqrtBetween(900 * n, 0, 30 * reach) \div train.speed_kmh) \div 2]

\* The body of the 200 answer of the dispatch route.  distancePx is the root
\* of n = dx * dx + dy * dy and distanceKm is distancePx / 4.
\* distanceKm.toFixed(1) is the decimal with one digit nearest to it, the
\* larger of two equally near: kept as the number of tenths, which is the
\* whole number nearest to sqrt(25 * n) / 2.  Math.round(distanceKm /
\* speed_kmh * 60) is the whole number nearest to sqrt(900 * n) / (2 *
\* speed_kmh), the larger of two equally near.
dispatchReport(train, targetStation) ==
  LET dx == targetStation.x - train.x
      dy == targetStation.y - train.y
      n == dx * dx + dy * dy
      reach == Abs(dx) + Abs(dy)
  IN [success |-> TRUE,
      distanceKm |-> (SqrtBetween(25 * n, 0, 5 * reach) + 1) \div 2,
      etaMinutes |-> (SqrtBetween(900 * n, 0, 30 * reach) \div train.speed_kmh + 1) \div 2]

\* The body of an error answer has neither field.
NoReport == [success |-> FALSE, distanceKm |-> 0, etaMinutes |-> 0]

\* The answers of POST /api/train/:id/dispatch.
TrainNotFound == [status |-> 404, error |-> "Train not found"]
StationNotFound == [status |-> 404, error |-> "Station not found"]
AlreadyThere == [status |-> 400, error |-> "Train is already at the target station"]
Dispatched == [status |-> 200, error |-> ""]
NoResponse == [status |-> 0, error |-> ""]

\* Variant of dispatchRoute: the test for the train's own station is left out.
dispatchRouteAnyTarget(d, trainId, targetStationId, now) ==
  LET k == getTrain(d, trainId)
  IN IF k = 0 THEN [d |-> d, res |-> TrainNotFound, body |-> NoReport]
     ELSE IF getStation(d.stations, targetStationId) = 0
          THEN [d |-> d, res |-> StationNotFound, body |-> NoReport]
          ELSE [d |-> addEvent([d EXCEPT !.trains[k].target_station_id = targetStationId,
                                         !.trains[k].departure_time = now,
                                         !.trains[k].status = "moving"],
                               "DISPATCH", "dispatched"),
                res |-> Dispatched,
                body |-> dispatchReport(d.trains[k],
                           d.stations[getStation(d.stations, targetStationId)])]

\* Variant of dispatchRoute: the train is also taken to the target at once.
dispatchRouteJump(d, trainId, targetStationId, now) ==
  LET k == getTrain(d, trainId)
      s == getStation(d.stations, targetStationId)
  IN IF k = 0 THEN [d |-> d, res |-> TrainNotFound, body |-> NoReport]
     ELSE IF s = 0 THEN [d |-> d, res |-> StationNotFound, body |-> NoReport]
     ELSE IF d.trains[k].current_station_id = targetStationId
          THEN [d |-> d, res |-> AlreadyThere, body |-> NoReport]
          ELSE [d |-> addEvent([d EXCEPT !.trains[k].target_station_id = targetStationId,
                                         !.trains[k].departure_time = now,
                                         !.trains[k].status = "moving",
                                         !.trains[k].x = d.stations[s].x,
                                         !.trains[k].y = d.stations[s].y],
                               "DISPATCH", "dispatched"),
                res |-> Dispatched,
                body |-> dispatchReport(d.trains[k], d.stations[s])]

\* POST /api/train/:id/dispatch: 404 for a train or a station that is not in
\* the table, 400 for the station the train is at; otherwise the train is
\* given the target, the departure time and status 'moving', whatever its
\* status was, and a DISPATCH event is logged; the answer carries the
\* distance and the minutes of the way from where the train is.
dispatchRoute(d, trainId, targetStationId, now) ==
  LET k == getTrain(d, trainId)
  IN IF k = 0 THEN [d |-> d, res |-> TrainNotFound, body |-> NoReport]
     ELSE IF getStation(d.stations, targetStationId) = 0
          THEN [d |-> d, res |-> StationNotFound, body |-> NoReport]
     ELSE IF d.trains[k].current_station_id = targetStationId
          THEN [d |-> d, res |-> AlreadyThere, body |-> NoReport]
          ELSE [d |-> addEvent([d EXCEPT !.trains[k].target_station_id = targetStationId,
                                         !.trains[k].departure_time = now,
                                         !.trains[k].status = "moving"],
                               "DISPATCH", "dispatched"),
                res |-> Dispatched,
                body |-> dispatchReport(d.trains[k],
                           d.stations[getStation(d.stations, targetStationId)])]

\* UPDATE trains SET <the columns of `data`> WHERE id = ?, then
\* saveDatabase(); no row is changed if the id is not in the table.
updateTrain(d, id, data) ==
  LET k == getTrain(d, id)
  IN IF k = 0 THEN saveDatabase(d)
     ELSE saveDatabase(
            [d EXCEPT !.trains[k] =
               [f \in DOMAIN @ |-> IF f \in DOMAIN data THEN data[f] ELSE @[f]]])

\* POST /api/train/:id/update with the body the tick sends: x, y, status and
\* current_station_id are written, and with them a null target and a null
\* departure time.  UPDATE ... WHERE id = ? writes nothing if the id is gone.
updateRoute(d, req) ==
  LET k == getTrain(d, req.id)
  IN IF k = 0 THEN saveDatabase(d)
     ELSE saveDatabase(
            [d EXCEPT !.trains[k].x = req.x,
                      !.trains[k].y = req.y,
                      !.trains[k].status = req.status,
                      !.trains[k].current_station_id = req.current_station_id,
                      !.trains[k].target_station_id = NULL,
                      !.trains[k].departure_time = NULL])

\* The page keeps the position of a train as a floating-point number of
\* pixels.  The model keeps it as a whole number of 1/Units pixel; Units is
\* such that every step on the layouts of the model is a whole number.
Units == 1500

\* The trains of GET /api/state as the page holds them.
FromServer(trains) ==
  [k \in 1..Len(trains) |->
     [trains[k] EXCEPT !.x = @ * Units, !.y = @ * Units]]

\* kmPerTick * PIXELS_PER_KM, in units
pixelsPerTick(train) ==
  (train.speed_kmh * TICK_RATE * SIMULATION_SPEED * PIXELS_PER_KM * Units)
    \div (1000 * 3600)

\* `train.status !== 'moving' || !train.target_station_id` is false, and
\* stations.find gives a station.
Moves(train, stations) ==
  /\ train.status = "moving"
  /\ train.target_station_id # NULL
  /\ getStation(stations, train.target_station_id) # 0

TargetOf(train, stations) == stations[getStation(stations, train.target_station_id)]

\* The distance left to the target, in units.
Remaining(train, target) ==
  LET dx == target.x * Units - train.x
      dy == target.y * Units - train.y
  IN Hypot(dx, dy)

\* Variant of Arrives: the train has to pass the target to arrive.
ArrivesBeyond(train, target) == Remaining(train, target) < pixelsPerTick(train)

\* `distance <= pixelsPerTick`
Arrives(train, target) == Remaining(train, target) <= pixelsPerTick(train)

\* The arrival branch: the train object is put on the target and made idle.
Arrive(train, target) ==
  [train EXCEPT !.x = target.x * Units, !.y = target.y * Units,
                !.status = "idle", !.current_station_id = target.id,
                !.target_station_id = NULL]

\* The body of the update request sent on arrival.
UpdateRequest(train, target) ==
  [id |-> train.id, x |-> target.x, y |-> target.y, status |-> "idle",
   current_station_id |-> target.id]

\* Variant of Advance: the step is taken on each axis at full length.
AdvanceEachAxis(train, target) ==
  LET dx == target.x * Units - train.x
      dy == target.y * Units - train.y
      sgn(v) == IF v > 0 THEN 1 ELSE IF v < 0 THEN -1 ELSE 0
  IN [train EXCEPT !.x = @ + sgn(dx) * pixelsPerTick(train),
                   !.y = @ + sgn(dy) * pixelsPerTick(train)]

\* The other branch: `train.x += (dx / distance) * pixelsPerTick`, and y.
Advance(train, target) ==
  LET dx == target.x * Units - train.x
      dy == target.y * Units - train.y
      distance == Remaining(train, target)
  IN [train EXCEPT !.x = @ + (dx * pixelsPerTick(train)) \div distance,
                   !.y = @ + (dy * pixelsPerTick(train)) \div distance]

\* One train of the loop of simulationTick.
TickTrain(train, stations) ==
  IF ~Moves(train, stations) THEN train
  ELSE IF Arrives(train, TargetOf(train, stations))
       THEN Arrive(train, TargetOf(train, stations))
       ELSE Advance(train, TargetOf(train, stations))

\* The loop of simulationTick over the array `arr` from its k-th train on, up
\* to the first await: `at` is the train whose arrival suspends the tick, 0
\* if the loop came to its end.
RECURSIVE RunLoop(_, _, _)
RunLoop(arr, k, stations) ==
  IF k > Len(arr) THEN [arr |-> arr, at |-> 0]
  ELSE LET next == [arr EXCEPT ![k] = TickTrain(arr[k], stations)]
       IN IF Moves(arr[k], stations) /\ Arrives(arr[k], TargetOf(arr[k], stations))
          THEN [arr |-> next, at |-> k]
          ELSE RunLoop(next, k + 1, stations)

\* ---------------------------------------------------------------- oracles

\* What JSON.parse gives for the Strategy Oracle's text: an object, or null.
\* `strategy` is the object's strategy field (undefined when it is missing).
PlanObject(strategy, cityName) ==
  [t |-> "object", strategy |-> strategy, cityName |-> cityName]

NullPlan == [t |-> "null", strategy |-> Undef, cityName |-> ""]

\* The directive getDailyBriefing returns when the Strategy Oracle fails.
DefaultPlan == PlanObject(JStr("Maintain system stability."), "Central")

\* `dailyPlan &&`: an object is truthy, null is not.
PlanTruthy(p) == p.t = "object"

\* `plan.strategy.includes('JUMP')` throws a TypeError unless strategy is a string.
includesThrows(plan) == plan.strategy.t # "string"

\* A reply of an oracle call: the call threw (or its text did not parse), or
\* it gave `value`.
Threw(v) == [ok |-> FALSE, value |-> v]
Gave(v) == [ok |-> TRUE, value |-> v]

\* Replies of the Strategy Oracle: a failure, a well-formed directive, an
\* object without the strategy text, and the JSON text null.
StrategyReplies ==
  { Threw(NullPlan),
    Gave(PlanObject(JStr("Urban Expansion"), "Tokyo")),
    Gave(PlanObject(Undef, "Tokyo")),
    Gave(NullPlan) }

Candidate(name, x, y, connectToId) ==
  [name |-> name, x |-> x, y |-> y, connectToId |-> connectToId]

\* `let proposal = null`
NoProposal == Candidate(Undef, 0, 0, Undef)

\* The values the Proposal Oracle puts in connectToId: missing, not a
\* number, a string of digits, and numbers that name an old station, the
\* station being added, or no station.
ConnectValues == {Undef, JStr("abc"), JStr("2"), JNum(1), JNum(3), JNum(4)}

\* Replies of the Proposal Oracle: a failure, a station "Alpha" with every
\* connectToId, another station "Beta", and a candidate without a name.
ProposeReplies ==
  {Threw(NoProposal)}
    \cup {Gave(Candidate(JStr("Alpha"), 400, 100, c)) : c \in ConnectValues}
    \cup {Gave(Candidate(JStr("Beta"), 900, 500, Undef)),
          Gave(Candidate(Undef, 700, 700, JNum(1)))}

\* Replies of the Verification Oracle: a failure, and verdicts whose valid
\* field is true, false, or the string "false".
VerifyReplies ==
  {Threw(Undef)} \cup {Gave(v) : v \in {JBool(TRUE), JBool(FALSE), JStr("false")}}

\* Math.floor(Math.random() * 60): the two ends of its range
SpeedDraws == {0, SPEED_SPAN - 1}

\* ----------------------------------------------------------- error texts

ThrottleMsg == "Marathon Agent is cooling down between cycles."
ConsensusMsg == "Could not reach verified consensus after multiple attempts."
TypeErrorMsg == "Cannot read properties of undefined (reading 'includes')"
ProposeErrorMsg == "proposal oracle failed"
VerifyErrorMsg == "verification oracle failed"
ConstraintMsg == "NOT NULL constraint failed: stations.name"

\* ------------------------------------------------------------------ state

VARIABLES
  clock,             \* Date.now()
  db,                \* the database in memory (tables, sqlite_sequence) and its file
  dailyPlan,         \* agents: the cached directive
  lastBriefingTime,  \* agents: the cache's timestamp
  lastWorkerTime,    \* agents: the throttle timestamp
  cyc,               \* the requests to /api/expand being served, by request slot
  calls,             \* invocations of expandNetwork so far
  accepted,          \* invocations that passed the throttle so far
  prevCallTime,      \* Date.now() at the start of the latest invocation (0: none yet)
  prevAcceptedTime,  \* the same, of the latest invocation that passed the throttle
  obtainedAt,        \* Date.now() when the reply now in dailyPlan was stored
  failedAcc,         \* the latest invocation whose Strategy call failed (0: none)
  resets,            \* resets so far
  fleetRuns,         \* calls of checkFleetBalance on its own so far
  stationsC,         \* the page: `stations`
  tracksC,           \* the page: `tracks`
  arrays,            \* the page: the arrays of trains `trains` names or has named
  cur,               \* the page: the array `trains` names now
  ticks,             \* the page: the ticks that are suspended, by slot
  refreshDue,        \* the page: fetchState calls due after a dispatch
  lastDispatch,      \* the latest dispatch request and its answer
  dispatches,        \* dispatch requests so far
  auto               \* the page: the auto-dispatch rounds so far and the latest one

vars == <<clock, db, dailyPlan, lastBriefingTime, lastWorkerTime, cyc,
          calls, accepted, prevCallTime, prevAcceptedTime, obtainedAt, failedAcc,
          resets, fleetRuns, stationsC, tracksC, arrays, cur, ticks,
          refreshDue,
          lastDispatch, dispatches, auto>>

agentVars == <<dailyPlan, lastBriefingTime, lastWorkerTime>>
cacheVars == <<dailyPlan, lastBriefingTime, obtainedAt>>
countVars == <<calls, accepted, prevCallTime, prevAcceptedTime>>
\* what no step of the orchestrator or of a reset touches
clientVars ==
  <<stationsC, tracksC, arrays, cur, ticks, refreshDue, lastDispatch, dispatches,
    auto>>
otherVars == <<fleetRuns, clientVars>>

Slots == 1..MaxInFlight
\* the slot of a server that is sent one request at a time
Serial == {1}

Success(id) == [success |-> TRUE, error |-> "", stationId |-> id]
Failure(msg) == [success |-> FALSE, error |-> msg, stationId |-> NULL]
NoResult == [success |-> FALSE, error |-> "", stationId |-> NULL]

\* `{ ...own, ...extra }`: the fields of both, a field of `extra` replacing
\* the field of `own` with its name.
Spread(own, extra) ==
  [f \in DOMAIN own \cup DOMAIN extra |-> IF f \in DOMAIN extra THEN extra[f] ELSE own[f]]

\* `return { success: true, stationId: newId, ...proposal }`, as far as the
\* route and the caller read it: success, stationId and error (the echoed
\* name, place and connectToId stay in the record of the candidate).
expandResult(newId, proposal) ==
  LET result == Spread(Success(newId), proposal)
  IN [f \in DOMAIN Success(newId) |-> result[f]]

\* POST /api/expand after its await: 429 with the error when the result has
\* one, else the result itself.
expandRoute(result) ==
  IF result.error # ""
  THEN [status |-> 429, body |-> Failure(result.error)]
  ELSE [status |-> 200, body |-> result]

\* One invocation of expandNetwork: where it is suspended (pc), its locals
\* (now, plan, attempts, proposal, valid = verification.valid), what it
\* returned, and a record of what it did: its number among the invocations
\* that passed the throttle (acc, 0 if it did not), the oracle calls it
\* issued, the candidate the Proposal Oracle gave last (offered), and whether
\* its Strategy call failed.
FreeSlot ==
  [pc |-> "free", now |-> 0, plan |-> NullPlan, attempts |-> 0,
   proposal |-> NoProposal, valid |-> JBool(FALSE), result |-> NoResult,
   offered |-> NoProposal, acc |-> 0, nStrategy |-> 0, nPropose |-> 0, nVerify |-> 0,
   strategyFailed |-> FALSE, oracleFailed |-> FALSE, nBalance |-> 0]

\* The page's ticks, and the cells of its arrays of trains.
TickSlots == 1..MaxTicksInFlight
Cells == 0..MaxTicksInFlight

NoRequest == [id |-> 0, x |-> 0, y |-> 0, status |-> "", current_station_id |-> 0]

\* One call of simulationTick that is suspended: at which await (pc), the
\* array it iterates (arr) and the train it is at (at), the update request it
\* sent (req), and the array as it was when the tick began (pre).
FreeTick == [pc |-> "free", arr |-> 0, at |-> 0, req |-> NoRequest, pre |-> << >>]

\* getTrain found no row
NoTrain ==
  [id |-> 0, name |-> << >>, current_station_id |-> NULL, target_station_id |-> NULL,
   x |-> 0, y |-> 0, speed_kmh |-> 0, departure_time |-> NULL, status |-> ""]

\* A dispatch request, the row getTrain gave its handler, and the answer.
NoDispatch ==
  [trainId |-> 0, targetStationId |-> 0, train |-> NoTrain, res |-> NoResponse,
   body |-> NoReport]

\* No round of the auto-dispatch has run.
NoRounds == [rounds |-> 0, threw |-> FALSE, sent |-> << >>]

\* The server has started on the database d and the page has loaded: init()
\* has fetched the state once and started the ticks.
InitOn(d) ==
  /\ clock = BootTime
  /\ db = d
  /\ dailyPlan = NullPlan
  /\ lastBriefingTime = 0
  /\ lastWorkerTime = 0
  /\ cyc = [s \in Slots |-> FreeSlot]
  /\ calls = 0
  /\ accepted = 0
  /\ prevCallTime = 0
  /\ prevAcceptedTime = 0
  /\ obtainedAt = 0
  /\ failedAcc = 0
  /\ resets = 0
  /\ fleetRuns = 0
  /\ stationsC = getStations(d)
  /\ tracksC = Field(stateRoute(d), "tracks")
  /\ arrays = [g \in Cells |-> IF g = 0 THEN FromServer(getTrains(d)) ELSE << >>]
  /\ cur = 0
  /\ ticks = [t \in TickSlots |-> FreeTick]
  /\ refreshDue = 0
  /\ lastDispatch = NoDispatch
  /\ dispatches = 0
  /\ auto = NoRounds

Init == InitOn(SeedDatabase)

\* -------------------------------------------------------- expandNetwork

\* Variant of Throttled: a cooldown one millisecond short.
ThrottledShort(now, last) == now - last < COOLDOWN_MS - 1

\* `now - lastWorkerTime < 60000`
Throttled(now, last) == now - last < COOLDOWN_MS

\* Variant of CacheFresh: the cache still counts as fresh when the interval
\* has just run out.
CacheFreshInclusive(plan, now, last) ==
  PlanTruthy(plan) /\ now - last <= BRIEFING_INTERVAL

\* `dailyPlan && (now - lastBriefingTime < BRIEFING_INTERVAL)`
CacheFresh(plan, now, last) == PlanTruthy(plan) /\ now - last < BRIEFING_INTERVAL

\* Variant of LoopContinues: the attempt counter is compared with <=.
LoopContinuesOneMore(valid, attempts) == ~Truthy(valid) /\ attempts <= maxAttempts

\* `while (!verification.valid && attempts < maxAttempts)`
LoopContinues(valid, attempts) == ~Truthy(valid) /\ attempts < maxAttempts

\* `return { success: ..., ... }`: the call is over and its locals are gone.
\* What stays is the result, the verdict the loop ended on, and the record of
\* what the invocation did.
Return(c, result) ==
  [c EXCEPT !.pc = "done", !.result = result, !.now = 0, !.plan = NullPlan,
            !.attempts = 0, !.proposal = NoProposal]

\* Variant of Caught: the catch block also deletes the newest station, as an
\* undo of a commit that did not happen.
CaughtUndo(c, d, msg) ==
  [c |-> Return(c, Failure(msg)),
   d |-> addEvent([d EXCEPT !.stations = SubSeq(@, 1, Len(@) - 1)], "SYSTEM", msg)]

\* The catch block: one SYSTEM event, and the failure is returned.
Caught(c, d, msg) ==
  [c |-> Return(c, Failure(msg)), d |-> addEvent(d, "SYSTEM", msg)]

\* Variant of OracleThrew: the failure of an oracle is taken as one more
\* rejected attempt, and the loop goes round again while attempts are left.
OracleThrewRetry(c, d, msg) ==
  LET c1 == [c EXCEPT !.oracleFailed = TRUE]
  IN IF c1.attempts < maxAttempts
     THEN [c |-> [c1 EXCEPT !.pc = "propose", !.attempts = @ + 1, !.nPropose = @ + 1],
           d |-> d]
     ELSE Caught(c1, d, msg)

\* `await proposeBuild(...)` or `await verifyBuild(...)` rejected: the request
\* failed or JSON.parse threw, and the error goes straight to the catch block.
OracleThrew(c, d, msg) == Caught([c EXCEPT !.oracleFailed = TRUE], d, msg)

\* Variant of BeginAttempt: the request to the Verification Oracle goes out
\* together with the one to the Proposal Oracle, two calls at a time.
BeginAttemptBoth(c, d) ==
  IF includesThrows(c.plan) THEN Caught(c, d, TypeErrorMsg)
  ELSE [c |-> [c EXCEPT !.pc = "propose", !.attempts = @ + 1, !.nPropose = @ + 1,
                        !.nVerify = @ + 1],
        d |-> d]

\* One turn of the loop up to its first await: attempts++, then proposeBuild
\* reads plan.strategy and sends the request to the Proposal Oracle.
BeginAttempt(c, d) ==
  IF includesThrows(c.plan) THEN Caught(c, d, TypeErrorMsg)
  ELSE [c |-> [c EXCEPT !.pc = "propose", !.attempts = @ + 1, !.nPropose = @ + 1],
        d |-> d]

\* Variant of ResolveConnection: the fallback is the row two before the last,
\* the second newest of the stations that were there before the new one.
ResolveConnectionSecond(validStations, connectToId) ==
  LET connectionId == Number(connectToId)
  IN IF connectionId.nan
        \/ ~\E i \in 1..Len(validStations) : validStations[i].id = connectionId.n
     THEN IF Len(validStations) >= 3
          THEN validStations[Len(validStations) - 2].id
          ELSE validStations[1].id
     ELSE connectionId.n

\* The connection of the new station: Number(connectToId) if it is the id of
\* a station now in the table, else the id of the row before the last one,
\* else (one row only) the id of the first.
ResolveConnection(validStations, connectToId) ==
  LET connectionId == Number(connectToId)
  IN IF connectionId.nan
        \/ ~\E i \in 1..Len(validStations) : validStations[i].id = connectionId.n
     THEN IF Len(validStations) >= 2
          THEN validStations[Len(validStations) - 1].id
          ELSE validStations[1].id
     ELSE connectionId.n

\* Variant of checkFleetBalance: a train is added already when the stations
\* are three a train.
checkFleetBalanceAtThree(d, i, r) ==
  LET stations == getStations(d)
      trains == getTrains(d)
  IN IF Len(stations) >= Len(trains) * TRAINS_PER_STATIONS
     THEN LET startStation == stations[i]
              trainName == <<"Express", Len(trains) + 1>>
          IN addEvent(addTrain(d, trainName, startStation.id, r), "SYSTEM", "New Rolling Stock")
     ELSE d

\* Variant of checkFleetBalance: a train is added only when the stations are
\* more than one above three a train.
checkFleetBalanceLate(d, i, r) ==
  LET stations == getStations(d)
      trains == getTrains(d)
  IN IF Len(stations) > Len(trains) * TRAINS_PER_STATIONS + 1
     THEN LET startStation == stations[i]
              trainName == <<"Express", Len(trains) + 1>>
          IN addEvent(addTrain(d, trainName, startStation.id, r), "SYSTEM", "New Rolling Stock")
     ELSE d

\* checkFleetBalance: one more train when there are more than three stations
\* a train.  `i` is the index Math.random picked, `r` the speed it drew.
checkFleetBalance(d, i, r) ==
  LET stations == getStations(d)
      trains == getTrains(d)
  IN IF Len(stations) > Len(trains) * TRAINS_PER_STATIONS
     THEN LET startStation == stations[i]
              trainName == <<"Express", Len(trains) + 1>>
          IN addEvent(addTrain(d, trainName, startStation.id, r), "SYSTEM", "New Rolling Stock")
     ELSE d

\* Variant of Execute: the fleet check runs first, on the tables as they
\* were before the station and the track of this cycle.
ExecuteBalanceFirst(c, d, i, r, kept) ==
  IF addStationThrows(c.proposal.name) THEN Caught(c, d, ConstraintMsg)
  ELSE LET d0 == checkFleetBalance(d, IF i > Len(d.stations) THEN 1 ELSE i, r)
           d1 == addStation(d0, c.proposal.name, c.proposal.x, c.proposal.y)
           newId == lastStationId(d1, kept)
           connectionId == ResolveConnection(getStations(d1), c.proposal.connectToId)
           d2 == addTrack(d1, connectionId, newId)
       IN [c |-> Return([c EXCEPT !.nBalance = @ + 1], expandResult(newId, c.proposal)),
           d |-> addEvent(d2, "CONSTRUCTION", "Built")]

\* EXECUTE and REBALANCE, one run without an await: the station, the
\* connection, the track, the CONSTRUCTION event, the fleet check, the result.
Execute(c, d, i, r, kept) ==
  IF addStationThrows(c.proposal.name) THEN Caught(c, d, ConstraintMsg)
  ELSE LET d1 == addStation(d, c.proposal.name, c.proposal.x, c.proposal.y)
           newId == lastStationId(d1, kept)
           connectionId == ResolveConnection(getStations(d1), c.proposal.connectToId)
           d2 == addTrack(d1, connectionId, newId)
           d3 == addEvent(d2, "CONSTRUCTION", "Built")
       IN [c |-> Return([c EXCEPT !.nBalance = @ + 1], expandResult(newId, c.proposal)),
           d |-> checkFleetBalance(d3, i, r)]

\* ---------------------------------------------------------------- actions

\* The request slot a new invocation takes: the lowest one not in use.
SlotAvailable(s) ==
  /\ cyc[s].pc = "free"
  /\ \A t \in Slots : t < s => cyc[t].pc # "free"

\* The continuation of `await agents.expandNetwork()` in the route handler is a
\* microtask: it runs before the event loop takes the next request or reply.
\* MacroTask holds when no such continuation is pending.
MacroTask == \A t \in Slots : cyc[t].pc # "done"

\* Slot s after a run of its invocation that left it as c.
Settle(s, c) == cyc' = [cyc EXCEPT ![s] = c]

\* Variant of StartCycle: lastWorkerTime is stamped before the throttle is
\* tested against the old stamp, so a rejected invocation moves it too.
StartCycleStampFirst(s, delay, maxCalls) ==
  /\ calls < maxCalls
  /\ MacroTask
  /\ SlotAvailable(s)
  /\ calls' = calls + 1
  /\ clock' = clock + delay
  /\ prevCallTime' = clock'
  /\ lastWorkerTime' = clock'
  /\ LET now == clock'
         c0 == [FreeSlot EXCEPT !.now = now]
     IN IF Throttled(now, lastWorkerTime)
        THEN /\ Settle(s, Return(c0, Failure(ThrottleMsg)))
             /\ UNCHANGED <<db, dailyPlan, lastBriefingTime, accepted, prevAcceptedTime>>
        ELSE /\ accepted' = accepted + 1
             /\ prevAcceptedTime' = clock'
             /\ UNCHANGED <<dailyPlan, lastBriefingTime>>
             /\ LET c1 == [c0 EXCEPT !.acc = accepted + 1]
                IN IF CacheFresh(dailyPlan, now, lastBriefingTime)
                   THEN LET next == BeginAttempt([c1 EXCEPT !.plan = dailyPlan], db)
                        IN Settle(s, next.c) /\ db' = next.d
                   ELSE /\ Settle(s, [c1 EXCEPT !.pc = "plan", !.nStrategy = 1])
                        /\ db' = db
  /\ UNCHANGED <<obtainedAt, failedAcc, resets>>
  /\ UNCHANGED otherVars

\* POST /api/expand: expandNetwork from its first line to its first await.
\* Inside the cooldown it returns at once.  Otherwise it stamps
\* lastWorkerTime and calls getDailyBriefing, which either returns the cached
\* directive (expandNetwork then goes on into the loop and sends the first
\* proposal request) or sends the request to the Strategy Oracle.
StartCycle(s, delay, maxCalls) ==
  /\ calls < maxCalls
  /\ MacroTask
  /\ SlotAvailable(s)
  /\ calls' = calls + 1
  /\ clock' = clock + delay
  /\ prevCallTime' = clock'
  /\ LET now == clock'
         c0 == [FreeSlot EXCEPT !.now = now]
     IN IF Throttled(now, lastWorkerTime)
        THEN /\ Settle(s, Return(c0, Failure(ThrottleMsg)))
             /\ UNCHANGED <<db, agentVars, accepted, prevAcceptedTime>>
        ELSE /\ lastWorkerTime' = now
             /\ accepted' = accepted + 1
             /\ prevAcceptedTime' = clock'
             /\ UNCHANGED <<dailyPlan, lastBriefingTime>>
             /\ LET c1 == [c0 EXCEPT !.acc = accepted + 1]
                IN IF CacheFresh(dailyPlan, now, lastBriefingTime)
                   THEN LET next == BeginAttempt([c1 EXCEPT !.plan = dailyPlan], db)
                        IN Settle(s, next.c) /\ db' = next.d
                   ELSE /\ Settle(s, [c1 EXCEPT !.pc = "plan", !.nStrategy = 1])
                        /\ db' = db
  /\ UNCHANGED <<obtainedAt, failedAcc, resets>>
  /\ UNCHANGED otherVars

\* getDailyBriefing after its await, then expandNetwork up to the first
\* proposal request.  A failed call gives the default directive and leaves
\* the cache alone.  A reply that parsed is stored in dailyPlan with the time
\* the call began; reading a field of null then throws into the same catch.
StrategyReply(s, reply, delay) ==
  /\ MacroTask
  /\ cyc[s].pc = "plan"
  /\ clock' = clock + delay
  /\ LET c == cyc[s]
     IN IF ~reply.ok
        THEN LET next == BeginAttempt([c EXCEPT !.plan = DefaultPlan,
                                                !.strategyFailed = TRUE], db)
             IN /\ Settle(s, next.c)
                /\ db' = next.d
                /\ failedAcc' = c.acc
                /\ UNCHANGED cacheVars
        ELSE /\ dailyPlan' = reply.value
             /\ lastBriefingTime' = c.now
             /\ obtainedAt' = clock'
             /\ failedAcc' = failedAcc
             /\ IF reply.value.t = "null"
                THEN LET next == BeginAttempt([c EXCEPT !.plan = DefaultPlan], db)
                     IN Settle(s, next.c) /\ db' = next.d
                ELSE LET d1 == addEvent(db, "AI_EXPANSION", "[THOUGHT] strategy")
                         d2 == addEvent(d1, "COMMANDER", "STRATEGY")
                         next == BeginAttempt([c EXCEPT !.plan = reply.value], d2)
                     IN Settle(s, next.c) /\ db' = next.d
  /\ UNCHANGED <<lastWorkerTime, countVars, resets>>
  /\ UNCHANGED otherVars

\* proposeBuild after its await: the candidate is kept, its rationale is
\* logged, and verifyBuild sends the request to the Verification Oracle.
ProposeReply(s, reply) ==
  /\ MacroTask
  /\ cyc[s].pc = "propose"
  /\ LET c == cyc[s]
         next == IF ~reply.ok THEN OracleThrew(c, db, ProposeErrorMsg)
                 ELSE [c |-> [c EXCEPT !.pc = "verify", !.proposal = reply.value,
                                       !.offered = reply.value, !.nVerify = @ + 1],
                       d |-> addEvent(db, "AI_EXPANSION", "[THOUGHT] proposal")]
     IN Settle(s, next.c) /\ db' = next.d
  /\ UNCHANGED <<clock, agentVars, obtainedAt, failedAcc, countVars, resets>>
  /\ UNCHANGED otherVars

\* verifyBuild after its await, then the rest of the loop body and what
\* follows it: a verdict that is not truthy is logged and the loop either
\* goes round again or gives up; a truthy verdict goes on to EXECUTE.
\* Math.random is drawn (i, r) only when the fleet check adds a train, and
\* the rowid is read (kept) only when a station is added.
VerifyReply(s, reply, i, r, kept) ==
  /\ MacroTask
  /\ cyc[s].pc = "verify"
  /\ LET adds == reply.ok /\ Truthy(reply.value)
                   /\ ~addStationThrows(cyc[s].proposal.name)
     IN /\ adds \/ ~kept
        /\ IF adds /\ Len(db.stations) + 1 > Len(db.trains) * TRAINS_PER_STATIONS
           THEN i \in 1..(Len(db.stations) + 1)
           ELSE i = 1 /\ r = 0
  /\ LET c == cyc[s]
         next ==
           IF ~reply.ok THEN OracleThrew(c, db, VerifyErrorMsg)
           ELSE LET c1 == [c EXCEPT !.valid = reply.value]
                    d1 == IF ~Truthy(reply.value)
                          THEN addEvent(db, "SYSTEM", "SELF-CORRECT")
                          ELSE db
                IN IF LoopContinues(c1.valid, c1.attempts) THEN BeginAttempt(c1, d1)
                   ELSE IF ~Truthy(c1.valid) THEN Caught(c1, d1, ConsensusMsg)
                   ELSE Execute(c1, d1, i, r, kept)
     IN Settle(s, next.c) /\ db' = next.d
  /\ UNCHANGED <<clock, agentVars, obtainedAt, failedAcc, countVars, resets>>
  /\ UNCHANGED otherVars

\* POST /api/reset
Reset(maxResets) ==
  /\ resets < maxResets
  /\ MacroTask
  /\ resets' = resets + 1
  /\ db' = resetDatabase(db)
  /\ UNCHANGED <<clock, agentVars, obtainedAt, failedAcc, cyc, countVars>>
  /\ UNCHANGED otherVars

\* The route handler after `await agents.expandNetwork()`: the result goes
\* out with res.json and the request is over.
Respond(s) ==
  /\ cyc[s].pc = "done"
  /\ cyc' = [cyc EXCEPT ![s] = FreeSlot]
  /\ UNCHANGED <<clock, db, agentVars, obtainedAt, failedAcc, countVars, resets>>
  /\ UNCHANGED otherVars

\* checkFleetBalance called on its own, on the database as it is.  `i` is
\* the station Math.random picked and `r` the speed it drew.
Rebalance(i, r, maxRuns) ==
  /\ fleetRuns < maxRuns
  /\ i \in 1..Len(db.stations)
  /\ fleetRuns' = fleetRuns + 1
  /\ db' = checkFleetBalance(db, i, r)
  /\ UNCHANGED <<clock, agentVars, obtainedAt, failedAcc, cyc, countVars, resets>>
  /\ UNCHANGED clientVars

\* The array cells not in use by a tick that is suspended.
Referenced(tk) == {tk[t].arr : t \in {u \in TickSlots : tk[u].pc # "free"}}

\* The cell `trains = data.trains` puts the new array in: the lowest one no
\* suspended tick still iterates.
NewCell(tk) ==
  CHOOSE g \in Cells :
    /\ g \notin Referenced(tk)
    /\ \A h \in Cells : h \notin Referenced(tk) => g <= h

\* The arrays after fetchState has assigned the answer of GET /api/state:
\* the new array is the current one, the arrays suspended ticks iterate stay,
\* and the others are garbage.
Assigned(old, tk, d) ==
  [g \in Cells |->
     IF g = NewCell(tk) THEN FromServer(getTrains(d))
     ELSE IF g \in Referenced(tk) THEN old[g]
     ELSE << >>]

\* The tick slot a new tick takes: the lowest one not in use.
TickSlotAvailable(t) ==
  /\ ticks[t].pc = "free"
  /\ \A u \in TickSlots : u < t => ticks[u].pc # "free"

\* The tick in slot t after its loop went on from train k of cell g and left
\* the array and the suspension point r: suspended at an arrival, or over.
Suspended(tk, t, g, before, r, stations, pre) ==
  IF r.at = 0 THEN [tk EXCEPT ![t] = FreeTick]
  ELSE [tk EXCEPT ![t] =
          [pc |-> "update", arr |-> g, at |-> r.at,
           req |-> UpdateRequest(before[r.at], TargetOf(before[r.at], stations)),
           pre |-> pre]]

\* setInterval fires: simulationTick from its first line to its first await,
\* on the array `trains` names now.  Every moving train with a target among
\* `stations` is advanced, until one arrives: that one is put on its target,
\* the update request is sent and the tick is suspended.
TickStart(t) ==
  /\ TickSlotAvailable(t)
  /\ LET r == RunLoop(arrays[cur], 1, stationsC)
     IN /\ arrays' = [arrays EXCEPT ![cur] = r.arr]
        /\ ticks' = Suspended(ticks, t, cur, arrays[cur], r, stationsC, arrays[cur])
  /\ UNCHANGED <<clock, db, agentVars, obtainedAt, failedAcc, cyc, countVars, resets,
                 fleetRuns, auto, stationsC, tracksC, cur, refreshDue, lastDispatch, dispatches>>

\* The server handles the update request of the tick in slot t, and the tick,
\* resumed by the answer, calls fetchState, which sends GET /api/state.
UpdateServed(t) ==
  /\ ticks[t].pc = "update"
  /\ MacroTask
  /\ db' = updateRoute(db, ticks[t].req)
  /\ ticks' = [ticks EXCEPT ![t].pc = "state"]
  /\ UNCHANGED <<clock, agentVars, obtainedAt, failedAcc, cyc, countVars, resets,
                 fleetRuns, auto, stationsC, tracksC, arrays, cur, refreshDue, lastDispatch, dispatches>>

\* The server answers GET /api/state and fetchState assigns the answer to
\* `stations` and `trains`; the tick in slot t, resumed, goes on with its
\* loop over the array it was iterating, up to the next await.
StateServed(t) ==
  /\ ticks[t].pc = "state"
  /\ MacroTask
  /\ stationsC' = getStations(db)
  /\ tracksC' = Field(stateRoute(db), "tracks")
  /\ LET g == ticks[t].arr
         r == RunLoop(arrays[g], ticks[t].at + 1, stationsC')
         tk == Suspended(ticks, t, g, arrays[g], r, stationsC', ticks[t].pre)
     IN /\ ticks' = tk
        /\ cur' = NewCell(tk)
        /\ arrays' = Assigned([arrays EXCEPT ![g] = r.arr], tk, db)
  /\ UNCHANGED <<clock, db, agentVars, obtainedAt, failedAcc, cyc, countVars, resets,
                 fleetRuns, auto, refreshDue, lastDispatch, dispatches>>

\* The fetch of the update request of the tick in slot t rejects (the
\* connection fails): `await fetch(...)` throws inside simulationTick, which
\* has no try around it, so the call ends there, with the rest of its loop
\* not run.  `served` says whether the request had reached the server.
UpdateFailed(t, served) ==
  /\ ticks[t].pc = "update"
  /\ MacroTask
  /\ db' = IF served THEN updateRoute(db, ticks[t].req) ELSE db
  /\ ticks' = [ticks EXCEPT ![t] = FreeTick]
  /\ UNCHANGED <<clock, agentVars, obtainedAt, failedAcc, cyc, countVars, resets,
                 fleetRuns, auto, stationsC, tracksC, arrays, cur, refreshDue, lastDispatch, dispatches>>

\* The train dispatchTrainTo takes: `trains.find(t => t.status === 'idle')`,
\* 0 if there is none.
FirstIdle(arr) ==
  IF \E k \in 1..Len(arr) : arr[k].status = "idle"
  THEN arr[CHOOSE k \in 1..Len(arr) :
             /\ arr[k].status = "idle"
             /\ \A j \in 1..(k - 1) : arr[j].status # "idle"].id
  ELSE 0

\* POST /api/train/:id/dispatch is handled.  With `ui` the request is the one
\* dispatchTrainTo sends after a click on a station of the page, for the first
\* train the page holds as idle, and fetchState follows a 200; without, it is
\* a request of any other client.
Dispatch(trainId, targetStationId, ui, maxDispatches) ==
  /\ dispatches < maxDispatches
  /\ MacroTask
  /\ ui => /\ trainId = FirstIdle(arrays[cur])
           /\ getStation(stationsC, targetStationId) # 0
  /\ dispatches' = dispatches + 1
  /\ clock' = clock + 1
  /\ LET r == dispatchRoute(db, trainId, targetStationId, clock')
     IN /\ db' = r.d
        /\ lastDispatch' =
             [trainId |-> trainId, targetStationId |-> targetStationId,
              train |-> IF getTrain(db, trainId) = 0 THEN NoTrain
                        ELSE db.trains[getTrain(db, trainId)],
              res |-> r.res, body |-> r.body]
        /\ refreshDue' = IF ui /\ r.res.status = 200 THEN refreshDue + 1 ELSE refreshDue
  /\ UNCHANGED <<agentVars, obtainedAt, failedAcc, cyc, countVars, resets,
                 fleetRuns, auto, stationsC, tracksC, arrays, cur, ticks>>

\* `neighborIds`: for every track with an end at the station, its other end.
NeighborIds(tracks, stationId) ==
  LET connections ==
        SelectSeq(tracks, LAMBDA tr : tr.station_a_id = stationId
                                        \/ tr.station_b_id = stationId)
  IN [k \in 1..Len(connections) |->
        IF connections[k].station_a_id = stationId
        THEN connections[k].station_b_id
        ELSE connections[k].station_a_id]

\* Math.floor(Math.random() * n) + 1 at the two ends of its range.
PickOf(u, n) == IF u = 0 THEN 1 ELSE n

\* The callback of the auto-dispatch timer, one run without an await: for
\* every train the page holds as idle, the neighbours of its station in
\* `tracks` (reading `tracks.filter` throws when no tracks were assigned, and
\* the forEach ends there), a neighbour drawn at random or, with no
\* neighbour, any other station, and dispatchTrainTo up to its fetch, which
\* names the first train the page holds as idle.  `for` is the train of the
\* forEach, trainId and targetStationId are the request.
autoDispatchRound(trains, tracks, stations, draws) ==
  LET Round[k \in 0..Len(trains)] ==
        IF k = 0 THEN [threw |-> FALSE, sent |-> << >>]
        ELSE LET before == Round[k - 1]
                 t == trains[k]
                 u == IF k \in DOMAIN draws THEN draws[k] ELSE 0
             IN IF before.threw \/ t.status # "idle" THEN before
                ELSE IF ~tracks.defined THEN [before EXCEPT !.threw = TRUE]
                ELSE LET neighborIds == NeighborIds(tracks.rows, t.current_station_id)
                         stationsOther ==
                           SelectSeq(stations, LAMBDA s : s.id # t.current_station_id)
                         target ==
                           IF Len(neighborIds) > 0
                           THEN neighborIds[PickOf(u, Len(neighborIds))]
                           ELSE IF Len(stationsOther) > 0
                           THEN stationsOther[PickOf(u, Len(stationsOther))].id
                           ELSE 0
                     IN IF target = 0 THEN before
                        ELSE [before EXCEPT
                                !.sent = Append(@, [for |-> t.id,
                                                    trainId |-> FirstIdle(trains),
                                                    targetStationId |-> target])]
  IN Round[Len(trains)]

\* The auto-dispatch timer fires.
AutoDispatch(draws, maxRounds) ==
  /\ auto.rounds < maxRounds
  /\ MacroTask
  /\ LET round == autoDispatchRound(arrays[cur], tracksC, stationsC, draws)
     IN auto' = [rounds |-> auto.rounds + 1, threw |-> round.threw, sent |-> round.sent]
  /\ UNCHANGED <<clock, db, agentVars, obtainedAt, failedAcc, cyc, countVars, resets,
                 fleetRuns, stationsC, tracksC, arrays, cur, ticks, refreshDue,
                 lastDispatch, dispatches>>

\* dispatchTrainTo after a 200: fetchState, and the server's answer assigned.
Refresh ==
  /\ refreshDue > 0
  /\ MacroTask
  /\ refreshDue' = refreshDue - 1
  /\ stationsC' = getStations(db)
  /\ tracksC' = Field(stateRoute(db), "tracks")
  /\ cur' = NewCell(ticks)
  /\ arrays' = Assigned(arrays, ticks, db)
  /\ UNCHANGED <<clock, db, agentVars, obtainedAt, failedAcc, cyc, countVars, resets,
                 fleetRuns, auto, ticks, lastDispatch, dispatches>>

\* -------------------------------------------------------- specifications

\* Spec: one request at a time, against the whole store.  The three oracles
\* give every reply of their sets and the database may be reset between two
\* runs; a request for a cycle comes a cooldown after the run before it, or a
\* millisecond after.
Next ==
  \/ \E s \in Serial, delay \in {1, COOLDOWN_MS} : StartCycle(s, delay, MaxCalls)
  \/ \E s \in Serial, reply \in StrategyReplies : StrategyReply(s, reply, 1)
  \/ \E s \in Serial, reply \in ProposeReplies : ProposeReply(s, reply)
  \/ \E s \in Serial, reply \in VerifyReplies, i \in 1..8, r \in SpeedDraws,
        kept \in RowidKept :
       VerifyReply(s, reply, i, r, kept)
  \/ \E s \in Serial : Respond(s)
  \/ Reset(MaxResets)

Spec == Init /\ [][Next]_vars

\* SpecTime: the throttle and the directive cache, one request at a time.
\* Requests come after every delay of Delays and the Strategy Oracle gives
\* every reply of its set after every delay of ReplyDelays; the other two
\* oracles give one candidate or fail, and accept or reject; the rowid does
\* not outlive a save.
FewProposeReplies ==
  {Threw(NoProposal), Gave(Candidate(JStr("Alpha"), 400, 100, Undef))}

FewVerifyReplies == {Gave(JBool(TRUE)), Gave(JBool(FALSE))}

NextTime ==
  \/ \E s \in Serial, delay \in Delays : StartCycle(s, delay, MaxTimedCalls)
  \/ \E s \in Serial, reply \in StrategyReplies, delay \in ReplyDelays :
       StrategyReply(s, reply, delay)
  \/ \E s \in Serial, reply \in FewProposeReplies : ProposeReply(s, reply)
  \/ \E s \in Serial, reply \in FewVerifyReplies, i \in 1..8, r \in SpeedDraws :
       VerifyReply(s, reply, i, r, FALSE)
  \/ \E s \in Serial : Respond(s)

SpecTime == Init /\ [][NextTime]_vars

\* SpecOverlap: requests that overlap.  A request may arrive while another
\* waits for an oracle, a cooldown after the request before it; the Strategy
\* Oracle answers with a directive or fails, the rest is as in SpecTime.
FewStrategyReplies ==
  {Threw(NullPlan), Gave(PlanObject(JStr("Urban Expansion"), "Tokyo"))}

NextOverlap ==
  \/ \E s \in Slots, delay \in {1, COOLDOWN_MS} :
       StartCycle(s, delay, MaxOverlapCalls)
  \/ \E s \in Slots, reply \in FewStrategyReplies : StrategyReply(s, reply, 1)
  \/ \E s \in Slots, reply \in FewProposeReplies : ProposeReply(s, reply)
  \/ \E s \in Slots, reply \in FewVerifyReplies, i \in 1..8, r \in SpeedDraws :
       VerifyReply(s, reply, i, r, FALSE)
  \/ \E s \in Slots : Respond(s)

SpecOverlap == Init /\ [][NextOverlap]_vars

\* SpecEcho: candidates that carry fields with the names of the result's
\* own.  One request at a time, a cooldown apart; the Strategy Oracle gives a
\* directive, the Proposal Oracle a station "Alpha" alone or with a success
\* flag, an error text, a stationId, or all three; the Verification Oracle
\* accepts or rejects; the rowid may or may not outlive the save.
EchoedFields ==
  { << >>,
    [success |-> FALSE],
    [error |-> "Budget exceeded"],
    [stationId |-> 99],
    [success |-> FALSE, error |-> "Budget exceeded", stationId |-> 99] }

EchoReplies ==
  {Gave(Spread(Candidate(JStr("Alpha"), 400, 100, JNum(1)), extra)) : extra \in EchoedFields}

NextEcho ==
  \/ \E s \in Serial : StartCycle(s, COOLDOWN_MS, MaxCalls)
  \/ \E s \in Serial :
       StrategyReply(s, Gave(PlanObject(JStr("Urban Expansion"), "Tokyo")), 1)
  \/ \E s \in Serial, reply \in EchoReplies : ProposeReply(s, reply)
  \/ \E s \in Serial, reply \in FewVerifyReplies, i \in 1..8, r \in SpeedDraws,
        kept \in RowidKept :
       VerifyReply(s, reply, i, r, kept)
  \/ \E s \in Serial : Respond(s)

SpecEcho == Init /\ [][NextEcho]_vars

\* SpecFleet: checkFleetBalance as a function of the database.  The run
\* starts from a database of any number of stations from the seed's two to
\* MaxStations and any number of trains from the seed's one to MaxFleet, and
\* the check is called on it with every station and the two ends of the speed
\* range drawn.
RECURSIVE Grown(_, _, _)
Grown(d, n, m) ==
  IF Len(d.stations) < n
  THEN LET d1 == addStation(d, JStr("Alpha"), 400, 100 * Len(d.stations))
       IN Grown(addTrack(d1, Len(d.stations), Len(d.stations) + 1), n, m)
  ELSE IF Len(d.trains) < m
       THEN Grown(addTrain(d, <<"Express", Len(d.trains) + 1>>, Len(d.trains), 0), n, m)
       ELSE d

InitFleet ==
  \E n \in 2..MaxStations, m \in 1..MaxFleet : InitOn(Grown(SeedDatabase, n, m))

NextFleet == \E i \in 1..MaxStations, r \in SpeedDraws : Rebalance(i, r, MaxFleetRuns)

SpecFleet == InitFleet /\ [][NextFleet]_vars

\* SpecMove: dispatch and movement.  The store holds the seed and two
\* stations more, one and two pixels east of station 1, and the second train,
\* at station 3; the page has loaded.  Dispatch requests name a train of
\* TrainInputs and a station of TargetInputs (the trains and the three near
\* stations, and an id that is in neither table), from the page or from
\* another client, the page ticks, and a client may reset the simulation
\* while the page is open.
MoveYard ==
  LET d1 == addStation(SeedDatabase, JStr("Alpha"), 51, 300)
      d2 == addTrack(d1, 2, lastStationId(d1, FALSE))
      d3 == addStation(d2, JStr("Beta"), 52, 300)
      d4 == addTrack(d3, 3, lastStationId(d3, FALSE))
  IN addTrain(d4, <<"Express", 2>>, 3, 0)

TrainInputs == {1, 2, 7}
TargetInputs == {1, 3, 4, 9}

InitMove == InitOn(MoveYard)

NextMove ==
  \/ \E trainId \in TrainInputs, targetStationId \in TargetInputs, ui \in BOOLEAN :
       Dispatch(trainId, targetStationId, ui, MaxDispatches)
  \/ Refresh
  \/ \E t \in TickSlots : TickStart(t)
  \/ \E t \in TickSlots : UpdateServed(t)
  \/ \E t \in TickSlots : StateServed(t)
  \/ Reset(MaxResets)

SpecMove == InitMove /\ [][NextMove]_vars

\* SpecStep: the tick on a layout with a slanted line.  Station 3 is three
\* pixels east and four south of station 1 and station 4 is where station 1
\* is; train 2 stands at station 3 with speed 100, so that fifteen of its
\* steps are the way to station 1 exactly.  The page dispatches the trains
\* and ticks.
StepYard ==
  LET d1 == addStation(SeedDatabase, JStr("Alpha"), 53, 304)
      d2 == addTrack(d1, 2, lastStationId(d1, FALSE))
      d3 == addStation(d2, JStr("Beta"), 50, 300)
      d4 == addTrack(d3, 3, lastStationId(d3, FALSE))
  IN addTrain(d4, <<"Express", 2>>, 3, 0)

NextStep ==
  \/ \E trainId \in TrainInputs, targetStationId \in TargetInputs :
       Dispatch(trainId, targetStationId, TRUE, MaxStepDispatches)
  \/ Refresh
  \/ \E t \in TickSlots : TickStart(t)
  \/ \E t \in TickSlots : UpdateServed(t)
  \/ \E t \in TickSlots : StateServed(t)

InitStep == InitOn(StepYard)

SpecStep == InitStep /\ [][NextStep]_vars

\* SpecAuto: SpecStep with the auto-dispatch timer.
AutoDraws == [1..MaxRoundTrains -> {0, 1}]

NextAuto ==
  \/ NextStep
  \/ \E draws \in AutoDraws : AutoDispatch(draws, MaxAutoRounds)

SpecAuto == InitStep /\ [][NextAuto]_vars

\* SpecLive: SpecStep with a timer that keeps firing and a server that
\* answers every request: a tick that can start does, and every update
\* request and every state request is served.
FairTicks ==
  /\ WF_vars(\E t \in TickSlots : TickStart(t))
  /\ WF_vars(\E t \in TickSlots : UpdateServed(t))
  /\ WF_vars(\E t \in TickSlots : StateServed(t))
  /\ WF_vars(Refresh)

SpecLive == InitStep /\ [][NextStep]_vars /\ FairTicks

\* SpecFail: SpecStep with a connection that may fail under the update
\* request of a tick.
NextFail ==
  \/ NextStep
  \/ \E t \in TickSlots, served \in BOOLEAN : UpdateFailed(t, served)

SpecFail == InitStep /\ [][NextFail]_vars

\* SpecStore: the functions of the store that change it, called one after
\* the other in any order on the seed, with at most MaxStoreRows rows in a
\* table.
notStore ==
  <<clock, agentVars, obtainedAt, failedAcc, cyc, countVars, resets, otherVars>>

\* Columns and values updateTrain is called with: those of the dispatch
\* route and those of the update route.
UpdateInputs ==
  {[target_station_id |-> 2, departure_time |-> 1, status |-> "moving"],
   [x |-> 650, y |-> 300, status |-> "idle", current_station_id |-> 2,
    target_station_id |-> NULL, departure_time |-> NULL]}

CallUpdateTrain(id, data) ==
  /\ db' = updateTrain(db, id, data)
  /\ UNCHANGED notStore

CallAddStation(x, y) ==
  /\ Len(db.stations) < MaxStoreRows
  /\ db' = addStation(db, JStr("Alpha"), x, y)
  /\ UNCHANGED notStore

CallAddTrack(a, b) ==
  /\ Len(db.tracks) < MaxStoreRows
  /\ db' = addTrack(db, a, b)
  /\ UNCHANGED notStore

CallAddTrain(stationId, r) ==
  /\ Len(db.trains) < MaxStoreRows
  /\ db' = addTrain(db, <<"Express", Len(db.trains) + 1>>, stationId, r)
  /\ UNCHANGED notStore

CallAddEvent(type) ==
  /\ db' = addEvent(db, type, "message")
  /\ UNCHANGED notStore

CallSetSetting(key, value) ==
  /\ db' = setSetting(db, key, value)
  /\ UNCHANGED notStore

NextStore ==
  \/ \E id \in {1, 7}, data \in UpdateInputs : CallUpdateTrain(id, data)
  \/ CallAddStation(400, 100)
  \/ \E b \in {0, 3} : CallAddTrack(1, b)
  \/ \E stationId \in {2, 9} : CallAddTrain(stationId, 0)
  \/ CallAddEvent("DISPATCH")
  \/ \E key \in {"auto_enabled", "theme"} : CallSetSetting(key, "true")
  \/ Reset(MaxResets)

SpecStore == Init /\ [][NextStore]_vars

\* SpecEta: dispatch requests of any client on the seed and on what
\* addStation and addTrain make of it: a station 1.25 km from the first, one
\* a diagonal pixel from it, one 10 km from the second; trains of speed 80,
\* 100 and 159 at any of them.
EtaSites == {<<53, 304>>, <<51, 301>>, <<650, 340>>}

NextEta ==
  \/ \E p \in EtaSites : CallAddStation(p[1], p[2])
  \/ \E stationId \in 1..MaxStoreRows, r \in {0, SPEED_SPAN - 1} :
       CallAddTrain(stationId, r)
  \/ \E trainId \in 1..(MaxStoreRows + 1), targetStationId \in 1..(MaxStoreRows + 1) :
       Dispatch(trainId, targetStationId, FALSE, MaxEtaDispatches)

SpecEta == Init /\ [][NextEta]_vars

\* ------------------------------------------------------ throttle and cache

\* The step is the start of an invocation of expandNetwork in slot s.
Started(s) == cyc[s].pc = "free" /\ cyc'[s].pc # "free"

\* c is an invocation that returned the throttled failure at once: it sent
\* nothing to any oracle.
RejectedAtOnce(c) ==
  /\ c.pc = "done"
  /\ c.result = Failure(ThrottleMsg)
  /\ c.nStrategy = 0 /\ c.nPropose = 0 /\ c.nVerify = 0

C8_StampedByEveryInvocation ==
  [][\A s \in Slots : Started(s) => lastWorkerTime' = clock']_vars

\* C8 amended: an invocation is rejected exactly when less than the cooldown
\* has passed since the start of the latest invocation that passed the
\* throttle; an invocation that passes sets the throttle timestamp to its
\* start time, a rejected one leaves it as it is, and so does every later
\* step of a cycle, whatever its outcome.
C8_StampedWhenAccepted ==
  [][/\ \A s \in Slots :
          Started(s) =>
            LET rejected == clock' - prevAcceptedTime < COOLDOWN_MS
            IN /\ rejected <=> RejectedAtOnce(cyc'[s])
               /\ rejected => lastWorkerTime' = lastWorkerTime
               /\ ~rejected => lastWorkerTime' = clock'
     /\ (\A s \in Slots : ~Started(s)) => lastWorkerTime' = lastWorkerTime]_vars

\* C8's case: a rejected invocation has just returned, and the throttle
\* timestamp is still the start time of the accepted invocation before it.
C8_Witness ==
  \E s \in Slots :
    /\ RejectedAtOnce(cyc[s])
    /\ prevCallTime = clock
    /\ lastWorkerTime = prevAcceptedTime
    /\ lastWorkerTime < clock

\* The step is the start of an invocation in slot s that passed the throttle
\* and so ran PLAN.
RanPlan(s) == Started(s) /\ cyc'[s].acc > 0

\* C10 as stated: with a well-formed directive in the cache, a cycle that runs
\* PLAN less than the planning interval after the directive was obtained
\* (after the Strategy Oracle's reply was stored) uses the cache and calls no
\* Strategy Oracle; one that runs PLAN later requests a fresh directive.
C10_SinceObtained ==
  [][\A s \in Slots :
       RanPlan(s) /\ PlanTruthy(dailyPlan) /\ ~includesThrows(dailyPlan) =>
         (clock' - obtainedAt < BRIEFING_INTERVAL <=> cyc'[s].nStrategy = 0)]_vars

\* C10 amended: the interval runs from the start of the PLAN step that asked
\* for the cached directive.  A reply of the Strategy Oracle that parses is
\* stored with the time its PLAN step began; a cycle whose PLAN step runs less
\* than the interval after that time, with an object in the cache, takes the
\* cached directive and calls no Strategy Oracle; every other cycle that runs
\* PLAN calls it once.
C10_SincePlanStart ==
  [][\A s \in Slots :
       /\ RanPlan(s) =>
            LET fresh == PlanTruthy(dailyPlan)
                           /\ clock' - lastBriefingTime < BRIEFING_INTERVAL
            IN /\ fresh <=> cyc'[s].nStrategy = 0
               /\ ~fresh <=> cyc'[s].pc = "plan" /\ cyc'[s].nStrategy = 1
               /\ fresh /\ cyc'[s].pc = "propose" => cyc'[s].plan = dailyPlan
               /\ UNCHANGED cacheVars
       /\ cyc[s].pc = "plan" /\ cyc'[s].pc # "plan" /\ ~cyc'[s].strategyFailed
            => /\ lastBriefingTime' = cyc[s].now
               /\ obtainedAt' = clock'
               /\ cyc'[s].nStrategy = 1]_vars

\* C10's case: a cycle took the cached directive a cooldown or more after the
\* PLAN step that asked for it, and another millisecond would have been too
\* late.
C10_Witness ==
  \E s \in Slots :
    /\ cyc[s].pc = "propose"
    /\ cyc[s].nStrategy = 0
    /\ cyc[s].plan = dailyPlan
    /\ cyc[s].now = clock
    /\ clock - lastBriefingTime = BRIEFING_INTERVAL - 1

\* The step is the failure of the Strategy Oracle call of the cycle in slot s.
StrategyFailed(s) == cyc[s].pc = "plan" /\ cyc'[s].strategyFailed

\* The part of C9 about the failing cycle: when its Strategy Oracle call fails
\* the cycle takes the default directive and goes on to its first proposal
\* request, no failure is returned, and the cache is left as it was; the
\* default directive is never in the cache.
C9_RecoveredLocally ==
  [][/\ dailyPlan' # DefaultPlan
     /\ \A s \in Slots :
          StrategyFailed(s) =>
            /\ cyc'[s].pc = "propose"
            /\ cyc'[s].plan = DefaultPlan
            /\ cyc'[s].nPropose = 1
            /\ UNCHANGED cacheVars]_vars

\* C9 as stated: the above, and the next cycle that passes the throttle after
\* a cycle whose Strategy Oracle call failed calls the Strategy Oracle again.
C9_NextCycleAsksAgain ==
  [][/\ dailyPlan' # DefaultPlan
     /\ \A s \in Slots :
          /\ StrategyFailed(s) =>
               /\ cyc'[s].pc = "propose"
               /\ cyc'[s].plan = DefaultPlan
               /\ UNCHANGED cacheVars
          /\ RanPlan(s) /\ accepted >= 1 /\ failedAcc = accepted
               => cyc'[s].nStrategy = 1]_vars

\* C9's failing case: the cycle that passed the throttle next after a cycle
\* whose Strategy Oracle call failed took a directive from the cache and
\* called no Strategy Oracle.
C9_Witness ==
  \E s \in Slots :
    /\ cyc[s].pc = "propose"
    /\ cyc[s].nStrategy = 0
    /\ failedAcc >= 1
    /\ cyc[s].acc = failedAcc + 1

\* ----------------------------------------------------- the loop and commit

\* The step is the one in which the cycle in slot s commits its candidate
\* and returns success.
Committed(s) ==
  cyc[s].pc = "verify" /\ cyc'[s].pc = "done" /\ cyc'[s].result.success

\* The step is the arrival of a verdict of the Verification Oracle for the
\* cycle in slot s (the call did not fail).
Verdict(s) ==
  /\ cyc[s].pc = "verify"
  /\ cyc'[s] # cyc[s]
  /\ ~(cyc'[s].pc = "done" /\ cyc'[s].result.error = VerifyErrorMsg)

\* The newest row of a table after the step.
NewestStation == db'.stations[Len(db'.stations)]
NewestTrack == db'.tracks[Len(db'.tracks)]

\* C3: a verdict that is not valid leads to another proposal request while
\* fewer than three verdicts were given, and after the third to the
\* consensus failure, with exactly three Proposal Oracle calls and exactly
\* three Verification Oracle calls made; a valid verdict ends the loop with no
\* further proposal request; no cycle makes more than three of either call.
C3_ThreeAttempts ==
  [][\A s \in Slots :
       /\ cyc'[s].nPropose <= maxAttempts
       /\ cyc'[s].nVerify <= cyc'[s].nPropose
       /\ Verdict(s) =>
            IF Truthy(cyc'[s].valid)
            THEN cyc'[s].pc = "done" /\ cyc'[s].nPropose = cyc[s].nPropose
            ELSE IF cyc[s].nVerify < maxAttempts
                 THEN /\ cyc'[s].pc = "propose"
                      /\ cyc'[s].nPropose = cyc[s].nPropose + 1
                 ELSE /\ cyc'[s].pc = "done"
                      /\ cyc'[s].result = Failure(ConsensusMsg)
       /\ cyc'[s].pc = "done" /\ cyc'[s].result.error = ConsensusMsg
            => /\ cyc'[s].nPropose = maxAttempts
               /\ cyc'[s].nVerify = maxAttempts
               /\ cyc'[s].valid = JBool(FALSE)]_vars

\* C3's case: a cycle returned the consensus failure after three proposals
\* and three verdicts, the last of them valid=false.
C3_Witness ==
  \E s \in Slots :
    /\ cyc[s].pc = "done"
    /\ cyc[s].result = Failure(ConsensusMsg)
    /\ cyc[s].nPropose = 3
    /\ cyc[s].nVerify = 3
    /\ cyc[s].valid = JBool(FALSE)

\* `new` is `old` with rows appended, as far as the rows kept show it.
AppendedOnly(old, new) ==
  \E k \in 0..EventWindow :
    /\ k <= Len(new)
    /\ Len(new) - k <= Len(old)
    /\ Len(new) = IF Len(old) + k <= EventWindow THEN Len(old) + k ELSE EventWindow
    /\ \A j \in 1..(Len(new) - k) : new[j] = old[Len(old) - (Len(new) - k) + j]

\* C4: every step of a cycle other than the one that commits a candidate
\* leaves the stations, the tracks and the trains as they are and only
\* appends events; so does the step that ends a cycle with the consensus
\* failure, whose last event carries the message.  A cycle that ends with the
\* consensus failure has no committing step.
C4_ConsensusFailureFrame ==
  [][\A s \in Slots :
       /\ cyc'[s] # cyc[s] /\ ~Committed(s) =>
            /\ db'.stations = db.stations
            /\ db'.tracks = db.tracks
            /\ db'.trains = db.trains
            /\ db'.sqlite_sequence = db.sqlite_sequence
            /\ AppendedOnly(db.events, db'.events)
       /\ cyc'[s] # cyc[s] /\ cyc'[s].pc = "done"
            /\ cyc'[s].result.error = ConsensusMsg
            => /\ ~Committed(s)
               /\ db'.events[Len(db'.events)] = [type |-> "SYSTEM", message |-> ConsensusMsg]]_vars

\* C4's case: a cycle has just returned the consensus failure while the
\* store holds more than the seed (another cycle committed a station).
C4_Witness ==
  \E s \in Slots :
    /\ cyc[s].pc = "done"
    /\ cyc[s].result = Failure(ConsensusMsg)
    /\ Len(db.stations) > Len(SeedStations)
    /\ db.events[Len(db.events)].message = ConsensusMsg

\* The newest, and the second newest (the only one, if there is one only),
\* of the stations of d.
MostRecent(d) == d.stations[Len(d.stations)].id
SecondMostRecent(d) ==
  IF Len(d.stations) >= 2 THEN d.stations[Len(d.stations) - 1].id
  ELSE d.stations[1].id

\* C2 as stated: when the committed candidate's connectToId is missing, not
\* a number, or not the id of a station that existed before the commit, one
\* end of the new track is the second most recently created of the stations
\* that existed before the commit.
C2_FallbackSecondMostRecent ==
  [][\A s \in Slots :
       Committed(s) =>
         LET n == Number(cyc[s].proposal.connectToId)
         IN n.nan \/ n.n \notin StationIds(db) =>
              SecondMostRecent(db)
                \in {NewestTrack.station_a_id, NewestTrack.station_b_id}]_vars

\* C2 amended: when the committed candidate's connectToId is missing, not a
\* number, or not the id of a station in the table once the new station is in
\* it, the new track starts at the most recently created of the stations that
\* existed before the commit, and ends at the id addStation returned.
C2_FallbackMostRecent ==
  [][\A s \in Slots :
       Committed(s) =>
         LET n == Number(cyc[s].proposal.connectToId)
         IN /\ NewestStation.id \notin StationIds(db)
            /\ n.nan \/ n.n \notin (StationIds(db) \cup {NewestStation.id}) =>
                 /\ NewestTrack.station_a_id = MostRecent(db)
                 /\ NewestTrack.station_b_id = cyc'[s].result.stationId]_vars

\* C2's case: with stations 1, 2 and 3 in the table a candidate with
\* connectToId "abc" was committed as station 4, and the new track starts at
\* station 3.
C2_Witness ==
  \E s \in Slots :
    /\ cyc[s].pc = "done"
    /\ cyc[s].result.success
    /\ cyc[s].offered.connectToId = JStr("abc")
    /\ StationIds(db) = 1..4
    /\ Len(db.tracks) = 3
    /\ db.tracks[3].station_a_id = 3

\* C5 as stated: a candidate is committed only on a verdict whose valid field
\* is the boolean true, and the new station has the name and the coordinates
\* of the candidate that verdict was given for.
C5_CommittedOnlyOnTrue ==
  [][\A s \in Slots :
       Committed(s) =>
         /\ cyc'[s].valid = JBool(TRUE)
         /\ cyc[s].proposal = cyc[s].offered
         /\ NewestStation.name = cyc[s].offered.name
         /\ NewestStation.x = cyc[s].offered.x
         /\ NewestStation.y = cyc[s].offered.y]_vars

\* The part of C5 that holds: a candidate is committed only on a verdict
\* whose valid field is truthy, and the new station has the name and the
\* coordinates of the candidate the Proposal Oracle gave last.
C5_CommittedOnlyOnTruthy ==
  [][\A s \in Slots :
       Committed(s) =>
         /\ Truthy(cyc'[s].valid)
         /\ cyc[s].proposal = cyc[s].offered
         /\ NewestStation.name = cyc[s].offered.name
         /\ NewestStation.x = cyc[s].offered.x
         /\ NewestStation.y = cyc[s].offered.y]_vars

\* C5's failing case: a cycle committed a station on the verdict
\* valid = "false", a string.
C5_Witness ==
  \E s \in Slots :
    /\ cyc[s].pc = "done"
    /\ cyc[s].result.success
    /\ cyc[s].valid = JStr("false")
    /\ db.stations[Len(db.stations)].name = cyc[s].offered.name

\* C6 as stated: every track joins two different stations, both in the table.
C6_EdgesJoinDistinctNodes ==
  \A i \in 1..Len(db.tracks) :
    /\ db.tracks[i].station_a_id # db.tracks[i].station_b_id
    /\ db.tracks[i].station_a_id \in StationIds(db)
    /\ db.tracks[i].station_b_id \in StationIds(db)

\* The part of C6 that holds: the end of every track that the connection
\* resolution chose is a station in the table.
C6_ResolvedEndExists ==
  \A i \in 1..Len(db.tracks) : db.tracks[i].station_a_id \in StationIds(db)

\* C6's failing case: a track with an end that is no station.
C6_Witness ==
  \E i \in 1..Len(db.tracks) : db.tracks[i].station_b_id \notin StationIds(db)

\* C6's other failing case (the rowid kept): a track from a station to itself.
C6_SelfLoop ==
  \E i \in 1..Len(db.tracks) :
    db.tracks[i].station_a_id = db.tracks[i].station_b_id

\* C7 as stated: the step that commits a candidate appends one station and
\* one track, the track joins the new station and the station connectToId
\* names (when it is a number and the id of a station that was there before),
\* and no other step but a reset changes either table.
C7_OneNodeOneEdge ==
  [][/\ \A s \in Slots :
          Committed(s) =>
            LET n == Number(cyc[s].proposal.connectToId)
            IN /\ db'.stations = Append(db.stations, NewestStation)
               /\ NewestStation.id \notin StationIds(db)
               /\ db'.tracks = Append(db.tracks, NewestTrack)
               /\ NewestTrack.station_b_id = NewestStation.id
               /\ ~n.nan /\ n.n \in StationIds(db)
                    => NewestTrack.station_a_id = n.n
     /\ (\A s \in Slots : ~Committed(s)) /\ resets' = resets
          => db'.stations = db.stations /\ db'.tracks = db.tracks]_vars

\* The part of C7 that holds: the store always has one track less than
\* stations; the step that commits a candidate appends one station and one
\* track, from the station connectToId names (when it is a number and the id
\* of a station that was there before) to the id addStation returned, which
\* is also the id the cycle returns; no other step but a reset changes either
\* table.
C7_CommitInOneStep ==
  /\ [](Len(db.stations) = Len(db.tracks) + 1)
  /\ [][/\ \A s \in Slots :
             Committed(s) =>
               LET n == Number(cyc[s].proposal.connectToId)
               IN /\ db'.stations = Append(db.stations, NewestStation)
                  /\ NewestStation.id \notin StationIds(db)
                  /\ db'.tracks = Append(db.tracks, NewestTrack)
                  /\ NewestTrack.station_b_id = cyc'[s].result.stationId
                  /\ NewestTrack.station_a_id \in StationIds(db')
                  /\ ~n.nan /\ n.n \in StationIds(db)
                       => NewestTrack.station_a_id = n.n
        /\ (\A s \in Slots : ~Committed(s)) /\ resets' = resets
             => db'.stations = db.stations /\ db'.tracks = db.tracks]_vars

\* C7's failing case: a cycle committed station 3 with connectToId 1 and
\* returned, and the new track runs from station 1 to 0, which is no station.
C7_Witness ==
  \E s \in Slots :
    /\ cyc[s].pc = "done"
    /\ cyc[s].result.success
    /\ cyc[s].offered.connectToId = JNum(1)
    /\ StationIds(db) = 1..3
    /\ db.tracks[Len(db.tracks)] = [id |-> 2, station_a_id |-> 1, station_b_id |-> 0]

\* ---------------------------------------------------------- oracle errors

\* The step is the failure of the Proposal or the Verification Oracle call
\* the cycle in slot s was waiting for.
OracleFailed(s) == cyc[s].pc \in {"propose", "verify"} /\ cyc'[s].oracleFailed

\* C11: when the Proposal Oracle or the Verification Oracle fails on any
\* attempt, the cycle returns in that step with a failure that carries the
\* error's message; it sends no further request to any oracle, whatever the
\* number of attempts left, and the stations, the tracks and the trains stay
\* as they were: the step adds one SYSTEM event with the message.
C11_OracleFailureEndsCycle ==
  [][\A s \in Slots :
       OracleFailed(s) =>
         /\ cyc'[s].pc = "done"
         /\ cyc'[s].result =
              Failure(IF cyc[s].pc = "propose" THEN ProposeErrorMsg ELSE VerifyErrorMsg)
         /\ cyc'[s].nStrategy = cyc[s].nStrategy
         /\ cyc'[s].nPropose = cyc[s].nPropose
         /\ cyc'[s].nVerify = cyc[s].nVerify
         /\ cyc'[s].nBalance = 0
         /\ db'.stations = db.stations
         /\ db'.tracks = db.tracks
         /\ db'.trains = db.trains
         /\ db'.events[Len(db'.events)] = [type |-> "SYSTEM", message |-> cyc'[s].result.error]]_vars

\* C11's case: the Verification Oracle failed on the first attempt of a
\* cycle, with two attempts left, and the cycle has returned the failure.
C11_Witness ==
  \E s \in Slots :
    /\ cyc[s].pc = "done"
    /\ cyc[s].oracleFailed
    /\ cyc[s].result = Failure(VerifyErrorMsg)
    /\ cyc[s].nPropose = 1
    /\ cyc[s].nVerify = 1
    /\ db.events[Len(db.events)].message = VerifyErrorMsg

\* What a caller has of a result apart from the free text of its message.
Untagged(result) == [success |-> result.success, stationId |-> result.stationId]

\* How the invocation c failed, from what it did: rejected by the throttle,
\* stopped by an oracle that failed, out of attempts without a valid verdict,
\* or stopped by another error (a directive without a strategy string, a
\* constraint of the store).
Kind(c) ==
  IF c.acc = 0 THEN "throttled"
  ELSE IF c.oracleFailed THEN "oracle-error"
  ELSE IF c.nVerify = maxAttempts /\ ~Truthy(c.valid) THEN "consensus-failed"
  ELSE "other"

\* The invocation c has returned a failure.
Failed(c) == c.pc = "done" /\ ~c.result.success

\* C12 as stated: a failure carries a message, and what it carries apart
\* from the message tells the caller its kind: the failure of a cycle that was
\* not throttled differs, apart from the message, from the throttled failure,
\* and that of a cycle stopped by an oracle error from the consensus failure.
C12_TaggedOutcome ==
  \A s \in Slots :
    Failed(cyc[s]) =>
      /\ cyc[s].result.error # ""
      /\ Kind(cyc[s]) # "throttled"
           => Untagged(cyc[s].result) # Untagged(Failure(ThrottleMsg))
      /\ Kind(cyc[s]) = "oracle-error"
           => Untagged(cyc[s].result) # Untagged(Failure(ConsensusMsg))

\* The part of C12 that holds: every failure carries a message, the
\* throttled failure the throttle message, the consensus failure the
\* consensus message, and a failure after an oracle error the message of that
\* error; a result with a message is a failure.
C12_FailureCarriesMessage ==
  \A s \in Slots :
    /\ Failed(cyc[s]) =>
         /\ cyc[s].result.error # ""
         /\ Kind(cyc[s]) = "throttled" <=> cyc[s].result.error = ThrottleMsg
         /\ Kind(cyc[s]) = "consensus-failed" <=> cyc[s].result.error = ConsensusMsg
         /\ Kind(cyc[s]) = "oracle-error"
              <=> cyc[s].result.error \in {ProposeErrorMsg, VerifyErrorMsg}
    /\ cyc[s].pc = "done" /\ cyc[s].result.success => cyc[s].result.error = ""

\* C12's failing case: a cycle stopped by an oracle error has returned a
\* failure that, apart from its message, is the throttled failure.
C12_Witness ==
  \E s \in Slots :
    /\ Failed(cyc[s])
    /\ Kind(cyc[s]) = "oracle-error"
    /\ cyc[s].result.error = ProposeErrorMsg
    /\ Untagged(cyc[s].result) = Untagged(Failure(ThrottleMsg))

\* ------------------------------------------------------- the fleet check

\* C13: the step that commits the station and the track of a cycle runs the
\* fleet check once, on the tables with the new station in them and after the
\* CONSTRUCTION event of the commit; no other step of a cycle runs it or
\* changes the trains, so a cycle that returns success has run it once and a
\* throttled or failed cycle never.
C13_BalancerOncePerCommit ==
  [][\A s \in Slots :
       /\ Committed(s) =>
            LET N == Len(db'.stations)
                M == Len(db.trains)
            IN /\ cyc'[s].nBalance = 1
               /\ Len(db'.stations) = Len(db.stations) + 1
               /\ Len(db'.tracks) = Len(db.tracks) + 1
               /\ Len(db'.trains) = IF N > M * TRAINS_PER_STATIONS THEN M + 1 ELSE M
               /\ SubSeq(db'.trains, 1, M) = db.trains
               /\ LET e == db'.events
                  IN IF N > M * TRAINS_PER_STATIONS
                     THEN /\ e[Len(e) - 1].type = "CONSTRUCTION"
                          /\ e[Len(e)] = [type |-> "SYSTEM", message |-> "New Rolling Stock"]
                     ELSE e[Len(e)].type = "CONSTRUCTION"
       /\ cyc'[s] # cyc[s] /\ ~Committed(s) =>
            /\ cyc'[s].nBalance = 0
            /\ db'.trains = db.trains
       /\ cyc'[s].pc = "done" =>
            cyc'[s].nBalance = IF cyc'[s].result.success THEN 1 ELSE 0]_vars

\* C13's case: with three stations and one train in the store a cycle
\* committed the fourth station and the fleet check it ran added the second
\* train, its event after the CONSTRUCTION event.
C13_Witness ==
  \E s \in Slots :
    /\ cyc[s].pc = "done"
    /\ cyc[s].result.success
    /\ cyc[s].nBalance = 1
    /\ Len(db.stations) = 4
    /\ Len(db.trains) = 2
    /\ db.events[Len(db.events) - 1].type = "CONSTRUCTION"
    /\ db.events[Len(db.events)].message = "New Rolling Stock"

\* C14: a call of the fleet check on N stations and M trains adds exactly one
\* train when N > 3 * M and leaves the database as it is when N <= 3 * M; it
\* never adds more than one, and it changes no station and no track.
C14_OneMoverIfOutnumbered ==
  [][fleetRuns' = fleetRuns + 1 =>
       LET N == Len(db.stations)
           M == Len(db.trains)
       IN /\ N > 3 * M => Len(db'.trains) = M + 1
          /\ N <= 3 * M => db' = db
          /\ Len(db'.trains) \in {M, M + 1}
          /\ SubSeq(db'.trains, 1, M) = db.trains
          /\ db'.stations = db.stations
          /\ db'.tracks = db.tracks]_vars

\* C14's case: the fleet check was called on ten stations and three trains
\* and added the fourth train, and no fifth.
C14_Witness ==
  /\ fleetRuns = 1
  /\ Len(db.stations) = 10
  /\ Len(db.trains) = 4
  /\ db.trains[4].speed_kmh = SPEED_BASE + SPEED_SPAN - 1
  /\ db.events[Len(db.events)].message = "New Rolling Stock"

\* C14's other case: the fleet check was called on nine stations and three
\* trains and added none.
C14_NoneAtNine ==
  /\ fleetRuns = 1
  /\ Len(db.stations) = 9
  /\ Len(db.trains) = 3

\* The train of the newest row of the trains table after the step.
NewestTrain == db'.trains[Len(db'.trains)]

\* C15: a train the fleet check adds is idle, stands at a station of the
\* table, at that station's coordinates, has no target and no departure
\* time, takes the next id, and has a speed from 100 to 159.
C15_NewMoverIdleAtNode ==
  [][Len(db'.trains) > Len(db.trains) =>
       /\ NewestTrain.status = "idle"
       /\ NewestTrain.target_station_id = NULL
       /\ NewestTrain.departure_time = NULL
       /\ NewestTrain.speed_kmh >= SPEED_BASE
       /\ NewestTrain.speed_kmh <= SPEED_BASE + SPEED_SPAN - 1
       /\ NewestTrain.id = Len(db'.trains)
       /\ \E i \in 1..Len(db'.stations) :
            /\ db'.stations[i].id = NewestTrain.current_station_id
            /\ db'.stations[i].x = NewestTrain.x
            /\ db'.stations[i].y = NewestTrain.y]_vars

\* C15's case: the fleet check added a train at the newest of seven
\* stations, with the highest speed of the range.
C15_Witness ==
  /\ fleetRuns = 1
  /\ Len(db.stations) = 7
  /\ Len(db.trains) = 3
  /\ db.trains[3] =
       [id |-> 3, name |-> <<"Express", 3>>, current_station_id |-> 7,
        target_station_id |-> NULL, x |-> db.stations[7].x, y |-> db.stations[7].y,
        speed_kmh |-> 159, departure_time |-> NULL, status |-> "idle"]

\* ------------------------------------------------------------- dispatch

\* The step is the handling of a dispatch request.
DispatchHandled == dispatches' = dispatches + 1

\* C18: a dispatch request for a train that is not in the table, for a
\* station that is not in the table, or for the station the train is at, is
\* answered with an error (404, 404, 400) and changes nothing in the store:
\* no row of any table and no event.
C18_RejectedDispatchChangesNothing ==
  [][DispatchHandled =>
       LET req == lastDispatch'
           k == getTrain(db, req.trainId)
           unknownTrain == req.trainId \notin {db.trains[j].id : j \in 1..Len(db.trains)}
           unknownStation == req.targetStationId \notin StationIds(db)
           sameStation == ~unknownTrain /\ db.trains[k].current_station_id = req.targetStationId
       IN /\ unknownTrain => req.res = TrainNotFound
          /\ ~unknownTrain /\ unknownStation => req.res = StationNotFound
          /\ ~unknownTrain /\ ~unknownStation /\ sameStation => req.res = AlreadyThere
          /\ unknownTrain \/ unknownStation \/ sameStation
               => /\ req.res.status \in {400, 404}
                  /\ req.res.error # ""
                  /\ db' = db
                  /\ UNCHANGED <<stationsC, arrays, cur, ticks, refreshDue>>]_vars

\* C18's case: train 2, which had moved to station 4, was dispatched to
\* station 4 and the request was refused.
C18_Witness ==
  /\ lastDispatch.trainId = 2
  /\ lastDispatch.targetStationId = 4
  /\ lastDispatch.res = AlreadyThere
  /\ db.trains[2].current_station_id = 4
  /\ db.trains[2].status = "idle"

\* C19: a dispatch request that is accepted gives the train status
\* 'moving', the station asked for as target and the time of the request as
\* departure time, and leaves the train's position, station, speed and name,
\* every other train, the stations and the tracks as they were; the page's
\* copy of the train is not moved either.
C19_DispatchSetsTargetOnly ==
  [][DispatchHandled /\ lastDispatch'.res.status = 200 =>
       LET req == lastDispatch'
           k == getTrain(db, req.trainId)
       IN /\ k # 0
          /\ db'.trains = [db.trains EXCEPT ![k].status = "moving",
                                             ![k].target_station_id = req.targetStationId,
                                             ![k].departure_time = clock']
          /\ clock' > clock
          /\ db'.stations = db.stations
          /\ db'.tracks = db.tracks
          /\ db'.events[Len(db'.events)].type = "DISPATCH"
          /\ arrays' = arrays]_vars

\* C19's case: train 1, idle at station 1, has been dispatched to station 3:
\* it is moving, with the target and the departure time of the request, and
\* still at the coordinates of station 1.
C19_Witness ==
  /\ lastDispatch.trainId = 1
  /\ lastDispatch.targetStationId = 3
  /\ lastDispatch.res = Dispatched
  /\ lastDispatch.train.status = "idle"
  /\ db.trains[1] = [SeedTrains[1] EXCEPT !.status = "moving", !.target_station_id = 3,
                                           !.departure_time = clock]

\* The step is the handling of the update request of a tick, for train `id`.
UpdateHandled(id) ==
  \E t \in TickSlots :
    ticks[t].pc = "update" /\ ticks'[t].pc = "state" /\ ticks[t].req.id = id

\* C20 as stated: with no reset, the status or the target of a train changes
\* only from idle to moving, by an accepted dispatch of that train, which gives
\* it the target asked for, or from moving to idle, by the update the page
\* sends when the train has arrived at its target; a train that is moving is
\* not given another target.
C20_OnlyDispatchAndArrival ==
  [][resets' = resets /\ Len(db'.trains) = Len(db.trains) =>
       \A k \in 1..Len(db.trains) :
         LET old == db.trains[k]
             new == db'.trains[k]
         IN old.status # new.status \/ old.target_station_id # new.target_station_id =>
              \/ /\ old.status = "idle" /\ new.status = "moving"
                 /\ DispatchHandled
                 /\ lastDispatch'.res = Dispatched
                 /\ lastDispatch'.trainId = old.id
                 /\ new.target_station_id = lastDispatch'.targetStationId
              \/ /\ old.status = "moving" /\ new.status = "idle"
                 /\ UpdateHandled(old.id)
                 /\ new.current_station_id = old.target_station_id
                 /\ new.target_station_id = NULL]_vars

\* The part of C20 that holds: a train is idle or moving; with no reset its
\* status and its target change only when a dispatch of that train is
\* accepted, which makes it moving with the target asked for, or when an
\* update request for that train is handled, which makes it idle with no
\* target, at the station the request names.
C20_ChangedByDispatchOrUpdate ==
  /\ [](\A k \in 1..Len(db.trains) : db.trains[k].status \in {"idle", "moving"})
  /\ [][resets' = resets /\ Len(db'.trains) = Len(db.trains) =>
          \A k \in 1..Len(db.trains) :
            LET old == db.trains[k]
                new == db'.trains[k]
            IN old.status # new.status \/ old.target_station_id # new.target_station_id =>
                 \/ /\ new.status = "moving"
                    /\ DispatchHandled
                    /\ lastDispatch'.res = Dispatched
                    /\ lastDispatch'.trainId = old.id
                    /\ new.target_station_id = lastDispatch'.targetStationId
                 \/ /\ new.status = "idle"
                    /\ UpdateHandled(old.id)
                    /\ new.target_station_id = NULL]_vars

\* C20's failing case: train 1, moving from station 1 to station 3, was
\* dispatched to station 4; the request was accepted and the train, still
\* moving, has the new target.
C20_Witness ==
  /\ lastDispatch.trainId = 1
  /\ lastDispatch.targetStationId = 4
  /\ lastDispatch.res = Dispatched
  /\ lastDispatch.train.status = "moving"
  /\ lastDispatch.train.target_station_id = 3
  /\ db.trains[1].status = "moving"
  /\ db.trains[1].target_station_id = 4
  /\ db.trains[1].current_station_id = 1

\* ------------------------------------------------------------- the tick

\* The step is a run of the loop of the tick in slot t that ends at an
\* arrival: the tick has begun, or has gone on after fetchState, and is
\* suspended at the update request of the train that arrived.
SuspendedAtArrival(t) == ticks[t].pc \in {"free", "state"} /\ ticks'[t].pc = "update"

\* The step is a tick that ran its whole loop with no arrival.
RanToEnd ==
  /\ ticks' = ticks
  /\ arrays' # arrays
  /\ refreshDue' = refreshDue

\* The train of the loop the run of slot t began with.
FirstOfRun(t) == IF ticks[t].pc = "free" THEN 1 ELSE ticks[t].at + 1

\* The train object `o` is due to arrive: moving, with a target among the
\* stations `st`, and no further from it than one step.
Due(o, st) ==
  /\ Moves(o, st)
  /\ Remaining(o, TargetOf(o, st)) <= pixelsPerTick(o)

\* The loop of the tick in slot t stops at the first train that is due and at
\* no other; that train is put on the coordinates of its target, idle, with
\* the target as its station and no target, and the update request sent for
\* it carries the same position, status and station.
SnapsAtArrival(t) ==
  SuspendedAtArrival(t) =>
    LET g == ticks'[t].arr
        k == ticks'[t].at
        o == arrays[g][k]
        target == TargetOf(o, stationsC')
    IN /\ Due(o, stationsC')
       /\ \A j \in FirstOfRun(t)..(k - 1) : ~Due(arrays[g][j], stationsC')
       /\ arrays'[g][k] =
            [o EXCEPT !.x = target.x * Units, !.y = target.y * Units,
                      !.status = "idle", !.current_station_id = target.id,
                      !.target_station_id = NULL]
       /\ ticks'[t].req =
            [id |-> o.id, x |-> target.x, y |-> target.y, status |-> "idle",
             current_station_id |-> target.id]

\* The trains table with the values of the update request `req` in row k.
Persisted(trains, k, req) ==
  [trains EXCEPT ![k].x = req.x, ![k].y = req.y, ![k].status = "idle",
                 ![k].current_station_id = req.current_station_id,
                 ![k].target_station_id = NULL,
                 ![k].departure_time = NULL]

\* The fetchState that ends the suspension of the tick in slot t leaves the
\* page with the rows of the store.
PageHoldsStore(t) ==
  ticks[t].pc = "state" /\ ticks'[t].pc # "state" =>
    /\ arrays'[cur'] = FromServer(db.trains)
    /\ stationsC' = db.stations

\* C16 as stated: in a tick every train that is moving, has a target among
\* the stations and is no further from it than the per-tick distance (a
\* distance of 0 too) is put on the target, idle, with the target as its
\* station and no target, and no other train is; the same values are in the
\* store once the update request is handled, with a null target and
\* departure time; after the tick the page holds the rows of the store.
C16_ArrivalSnapsAndPersists ==
  [][/\ \A t \in TickSlots :
          /\ SnapsAtArrival(t)
          /\ ticks[t].pc = "update" /\ ticks'[t].pc = "state" =>
               LET k == getTrain(db, ticks[t].req.id)
               IN k # 0 /\ db'.trains = Persisted(db.trains, k, ticks[t].req)
          /\ PageHoldsStore(t)
     /\ RanToEnd => \A j \in 1..Len(arrays[cur]) : ~Due(arrays[cur][j], stationsC)]_vars

\* C16 amended: the same, but the values are in the store once the update
\* request is handled only if the store still has a row with the id of the
\* train: the request writes that row, whatever it holds by then, and
\* writes nothing if a reset has taken the row away.
C16_ArrivalSnapsAndPersistsIfKept ==
  [][/\ \A t \in TickSlots :
          /\ SnapsAtArrival(t)
          /\ ticks[t].pc = "update" /\ ticks'[t].pc = "state" =>
               LET k == getTrain(db, ticks[t].req.id)
               IN IF k # 0 THEN db'.trains = Persisted(db.trains, k, ticks[t].req)
                  ELSE db' = db
          /\ PageHoldsStore(t)
     /\ RanToEnd => \A j \in 1..Len(arrays[cur]) : ~Due(arrays[cur][j], stationsC)]_vars

\* The arrival at the boundary: train 2, one step of its own from station 1,
\* arrived in a tick; the page put it on station 1 and the store holds it
\* there, idle.
C16_AtBoundary ==
  \E t \in TickSlots :
    /\ ticks[t].pc = "state"
    /\ ticks[t].req = [id |-> 2, x |-> 50, y |-> 300, status |-> "idle",
                        current_station_id |-> 1]
    /\ ticks[t].pre[2].status = "moving"
    /\ Remaining(ticks[t].pre[2], stationsC[1]) = pixelsPerTick(ticks[t].pre[2])
    /\ arrays[ticks[t].arr][2].x = 50 * Units
    /\ arrays[ticks[t].arr][2].y = 300 * Units
    /\ arrays[ticks[t].arr][2].status = "idle"
    /\ db.trains[2] = [id |-> 2, name |-> <<"Express", 2>>, current_station_id |-> 1,
                        target_station_id |-> NULL, x |-> 50, y |-> 300,
                        speed_kmh |-> 100, departure_time |-> NULL, status |-> "idle"]

\* C16's failing case: train 2 arrived at station 1 in a tick, the page put
\* it there, idle, and the update request was handled by a store that a
\* reset had left without a train 2: nothing was persisted.
C16_Witness ==
  \E t \in TickSlots :
    /\ ticks[t].pc = "state"
    /\ ticks[t].req = [id |-> 2, x |-> 50, y |-> 300, status |-> "idle",
                        current_station_id |-> 1]
    /\ arrays[ticks[t].arr][2].status = "idle"
    /\ arrays[ticks[t].arr][2].current_station_id = 1
    /\ getTrain(db, 2) = 0
    /\ resets > 0

\* C16's other case: train 1, dispatched to station 4, which is where
\* station 1 is, arrived in the first tick, with no way to go.
C16_ZeroDistance ==
  \E t \in TickSlots :
    /\ ticks[t].pc = "state"
    /\ ticks[t].req.id = 1
    /\ ticks[t].req.current_station_id = 4
    /\ Remaining(ticks[t].pre[1], stationsC[4]) = 0
    /\ db.trains[1].current_station_id = 4
    /\ db.trains[1].status = "idle"

\* ------------------------------------------------------- the line of a move

\* Point q lies on the segment from point p to the station `target`.
OnSegment(p, q, target) ==
  LET ax == target.x * Units
      ay == target.y * Units
      between(lo, v, hi) == (lo <= v /\ v <= hi) \/ (hi <= v /\ v <= lo)
  IN /\ (q.x - p.x) * (ay - p.y) = (q.y - p.y) * (ax - p.x)
     /\ between(p.x, q.x, ax)
     /\ between(p.y, q.y, ay)

\* From train object o to train object n the train went one tick's way along
\* the line to its target: onto the target if it was no further than the
\* per-tick distance, by exactly that distance if it was.
LineStep(o, n, stations) ==
  LET target == TargetOf(o, stations)
  IN /\ OnSegment(o, n, target)
     /\ Remaining(n, target) <= Remaining(o, target)
     /\ Remaining(o, target) > pixelsPerTick(o) =>
          /\ Hypot(n.x - o.x, n.y - o.y) = pixelsPerTick(o)
          /\ Remaining(n, target) = Remaining(o, target) - pixelsPerTick(o)
          /\ n.status = "moving"

\* Between the list `pre` the page held when a tick began and the list `post`
\* it holds when the tick is over, every train that was moving towards one
\* of the stations has gone one tick's way along its line.
StaysOnLine(pre, post, stations) ==
  \A k \in 1..Len(pre) :
    Moves(pre[k], stations) => k <= Len(post) /\ LineStep(pre[k], post[k], stations)

\* The step is a tick that ran from its first line to its last.
PlainTick == ticks' = ticks /\ refreshDue' = refreshDue /\ arrays' # arrays

\* C17 as stated: for every tick and every train that is moving when the
\* tick begins, the position the page holds when the tick is over lies on
\* the segment from the position it held when the tick began to the target,
\* no further from the target, and exactly the per-tick distance away from
\* the old position if the target was further than that.
C17_OnLineEveryTick ==
  [][/\ PlainTick => StaysOnLine(arrays[cur], arrays'[cur'], stationsC)
     /\ \A t \in TickSlots :
          ticks[t].pc = "state" /\ ticks'[t].pc = "free" =>
            StaysOnLine(ticks[t].pre, arrays'[cur'], stationsC)]_vars

\* What holds of C17: in every run of the loop of a tick, from its start or
\* from where it went on after an arrival, each train object the loop came
\* to that was moving towards a station has gone one tick's way along its
\* line, and the objects it did not come to are as they were.
C17_OnLineEveryLoopRun ==
  [][/\ PlainTick =>
          /\ cur' = cur
          /\ \A j \in 1..Len(arrays[cur]) :
               IF Moves(arrays[cur][j], stationsC)
               THEN LineStep(arrays[cur][j], arrays'[cur][j], stationsC)
               ELSE arrays'[cur][j] = arrays[cur][j]
     /\ \A t \in TickSlots :
          SuspendedAtArrival(t) =>
            LET g == ticks'[t].arr
            IN \A j \in 1..Len(arrays[g]) :
                 IF /\ FirstOfRun(t) <= j /\ j <= ticks'[t].at
                    /\ Moves(arrays[g][j], stationsC')
                 THEN LineStep(arrays[g][j], arrays'[g][j], stationsC')
                 ELSE arrays'[g][j] = arrays[g][j]]_vars

\* C17's failing case: the tick in which train 2 arrived at station 1 is
\* waiting for the answer of GET /api/state; train 1 was on its way to
\* station 3 when the tick began, nearer to it than station 1 is, and the
\* store, whose rows the answer puts in the place of the page's, holds it
\* moving at station 1, where it left.
C17_Witness ==
  \E t \in TickSlots :
    /\ ticks[t].pc = "state"
    /\ ticks[t].req.id = 2
    /\ ticks[t].req.current_station_id = 1
    /\ ticks[t].pre[1].status = "moving"
    /\ ticks[t].pre[1].target_station_id = 3
    /\ Remaining(ticks[t].pre[1], stationsC[3])
         < Remaining(FromServer(db.trains)[1], stationsC[3])
    /\ db.trains[1].status = "moving"
    /\ db.trains[1].target_station_id = 3
    /\ db.trains[1].x = 50
    /\ db.trains[1].y = 300

\* ------------------------------------------------- invariants of the store

C22_MoverNodesExist ==
  \A k \in 1..Len(db.trains) :
    /\ db.trains[k].current_station_id \in StationIds(db)
    /\ db.trains[k].target_station_id \in StationIds(db) \cup {NULL}

\* What holds of C22: the target of a train is always a station of the
\* table, its current station is one as long as there was no reset, and the
\* end of a track that was chosen among the stations is one.
C22_NodesExistUntilReset ==
  /\ \A k \in 1..Len(db.trains) :
       /\ db.trains[k].target_station_id \in StationIds(db) \cup {NULL}
       /\ resets = 0 => db.trains[k].current_station_id \in StationIds(db)
  /\ \A i \in 1..Len(db.tracks) : db.tracks[i].station_a_id \in StationIds(db)

\* C22's failing case: after a reset the store has stations 1 and 2 only,
\* and the arrival update of the page has put train 1 at station 3.
C22_Witness ==
  /\ resets > 0
  /\ StationIds(db) = {1, 2}
  /\ \E k \in 1..Len(db.trains) :
       /\ db.trains[k].id = 1
       /\ db.trains[k].current_station_id = 3
       /\ db.trains[k].x = 51
       /\ db.trains[k].y = 300

\* -------------------------------------------------- ticks that overlap

\* The ticks that are suspended at an await.
InFlight == {t \in TickSlots : ticks[t].pc # "free"}

\* C23 as stated, first half: the tick is never entered again while an
\* earlier tick is suspended at the await of its update or of its refresh.
C23_TickNeverReentered == Cardinality(InFlight) <= 1

\* C23 as stated, second half: no dispatch of a train is accepted while the
\* update request a tick has sent for that train is waiting to be handled.
C23_NoDispatchDuringUpdate ==
  [][DispatchHandled /\ lastDispatch'.res = Dispatched =>
       \A t \in TickSlots :
         ticks[t].pc = "update" => ticks[t].req.id # lastDispatch'.trainId]_vars

\* What holds of C23: two ticks in flight over the same list are never
\* suspended at the same train.  A tick makes the train idle on the list
\* before it awaits, so a tick that begins meanwhile on that list passes it.
C23_OncePerListAndTrain ==
  \A t \in InFlight, u \in InFlight :
    t # u /\ ticks[t].arr = ticks[u].arr => ticks[t].at # ticks[u].at

\* C23's failing case: the tick that found train 1 due is still waiting for
\* its update request, and a later tick, begun meanwhile, has found train 2
\* due and is waiting too.
C23_Witness ==
  \E t \in TickSlots, u \in TickSlots :
    /\ ticks[t].pc = "update"
    /\ ticks[t].req.id = 1
    /\ ticks[u].pc = "update"
    /\ ticks[u].req.id = 2

\* C23's other failing case: two update requests for train 1 are waiting,
\* of two ticks over two lists.
C23_TwoUpdatesOfOneTrain ==
  \E t \in TickSlots, u \in TickSlots :
    /\ t # u
    /\ ticks[t].pc = "update"
    /\ ticks[u].pc = "update"
    /\ ticks[t].req.id = ticks[u].req.id

\* ------------------------------------------------ a failure inside a tick

\* The step is the failure of the update request of the tick in slot t.
FailedInTick(t) == ticks[t].pc = "update" /\ ticks'[t].pc = "free"

\* C24 as stated: when the update request for one train's arrival fails, the
\* tick goes on: every train after it on the list that is moving is advanced
\* or arrives as in any tick.
C24_FailureDoesNotStopTick ==
  [][\A t \in TickSlots :
       FailedInTick(t) =>
         LET g == ticks[t].arr
         IN \A j \in (ticks[t].at + 1)..Len(arrays[g]) :
              arrays'[g][j] = TickTrain(arrays[g][j], stationsC)]_vars

\* What holds of C24: the failure ends the tick.  The page keeps its list as
\* it is, with the arrived train idle on its target and no train after it
\* touched, and the store has the arrival or not, as the request came
\* through or not.
C24_FailureEndsTick ==
  [][\A t \in TickSlots :
       FailedInTick(t) =>
         /\ arrays' = arrays /\ cur' = cur /\ stationsC' = stationsC
         /\ arrays[ticks[t].arr][ticks[t].at].status = "idle"
         /\ db' \in {db, updateRoute(db, ticks[t].req)}]_vars

\* C24's failing case: the update request for train 1's arrival at station 4
\* failed before it reached the server.  No tick is in flight; the page has
\* train 1 idle at station 4 and the store has it moving; train 2, moving
\* towards station 1, is where it was before the tick.
C24_Witness ==
  /\ InFlight = {}
  /\ refreshDue = 0
  /\ arrays[cur][1].status = "idle"
  /\ arrays[cur][1].current_station_id = 4
  /\ db.trains[1].status = "moving"
  /\ db.trains[1].target_station_id = 4
  /\ arrays[cur][2] = FromServer(db.trains)[2]
  /\ db.trains[2].status = "moving"

\* ------------------------------------------------- the sets of the store

\* The table `new` is the table `old` with rows added at its end, if any.
Extends(old, new) ==
  /\ Len(old) <= Len(new)
  /\ \A j \in 1..Len(old) : new[j] = old[j]

\* The trains of `old` are all in `new`, in their places.
KeepsTrains(old, new) ==
  /\ Len(old) <= Len(new)
  /\ \A j \in 1..Len(old) : new[j].id = old[j].id /\ new[j].name = old[j].name

\* No step but a reset takes a station, a track or a train away or changes a
\* station or a track.
GrowsOnly ==
  resets' = resets =>
    /\ Extends(db.stations, db'.stations)
    /\ Extends(db.tracks, db'.tracks)
    /\ KeepsTrains(db.trains, db'.trains)

\* C25 as stated: the sets of stations, tracks and trains never lose an
\* element and no station or track is ever changed, except that a reset
\* leaves all three sets, and the events, empty.
C25_GrowOrEmpty ==
  [][/\ GrowsOnly
     /\ resets' # resets =>
          /\ db'.stations = << >> /\ db'.tracks = << >>
          /\ db'.trains = << >> /\ db'.events = << >>]_vars

\* C25 amended: the same, except that a reset leaves the three sets as the
\* seed has them (stations 1 and 2, the track between them, train 1 idle at
\* station 1) and the events with one new event.
C25_GrowOrSeed ==
  [][/\ GrowsOnly
     /\ resets' # resets =>
          /\ db'.stations = SeedStations /\ db'.tracks = SeedTracks
          /\ db'.trains = SeedTrains /\ Len(db'.events) = 1]_vars

\* C25's case: there was a reset, which left the seed, and a cycle after it
\* has committed a station and a track: the store has the stations and the
\* track of the seed, unchanged, and after them the new station and the new
\* track, numbered from the seed on.
C25_Witness ==
  /\ resets > 0
  /\ Len(db.stations) = 3
  /\ SubSeq(db.stations, 1, 2) = SeedStations
  /\ db.stations[3].id = 3
  /\ Len(db.tracks) = 2
  /\ SubSeq(db.tracks, 1, 1) = SeedTracks
  /\ db.tracks[2].id = 2
  /\ KeepsTrains(SeedTrains, db.trains)

\* ---------------------------------------------------- the file on disk

\* The tables `tb` are those of the seed: stations 1 and 2, the track
\* between them, train 1 idle at station 1, and counters that make the next
\* ids 3, 2 and 2.
IsSeed(tb) ==
  /\ Len(tb.stations) = 2
  /\ tb.stations[1].id = 1 /\ tb.stations[2].id = 2
  /\ Len(tb.tracks) = 1
  /\ tb.tracks[1].station_a_id = 1 /\ tb.tracks[1].station_b_id = 2
  /\ Len(tb.trains) = 1
  /\ tb.trains[1].id = 1
  /\ tb.trains[1].status = "idle"
  /\ tb.trains[1].current_station_id = 1
  /\ tb.trains[1].target_station_id = NULL
  /\ tb.sqlite_sequence = [stations |-> 2, tracks |-> 1, trains |-> 1]

\* C26: after resetDatabase(), called in any state, the database in memory
\* holds the seed, and so does the database initDatabase() reads back from
\* the file afterwards.
C26_ResetLeavesSeed ==
  [][resets' # resets =>
       /\ IsSeed(Tables(db'))
       /\ IsSeed(Tables(initDatabase(db')))
       /\ Tables(initDatabase(db')) = Tables(db')]_vars

\* C26's case: the store had four stations and two trains, a tick of the
\* page was waiting at the arrival of a train, and a reset has left the seed
\* in memory and in the file.
C26_Witness ==
  /\ resets > 0
  /\ InFlight # {}
  /\ IsSeed(Tables(db))
  /\ IsSeed(db.file)

\* C27: whenever a call that changes the store has returned, the file holds
\* what the database in memory holds.
C27_FileIsMemory == db.file = Tables(db)

\* C27's case: after calls of addStation, addTrack, addTrain, updateTrain
\* and setSetting the store has a third station, a second track, a second
\* train, train 1 moving and the setting 'true', and the file has them too.
C27_Witness ==
  /\ Len(db.file.stations) = 3
  /\ Len(db.file.tracks) = 2
  /\ Len(db.file.trains) = 2
  /\ db.file.trains[1].status = "moving"
  /\ db.file.settings["auto_enabled"] = "true"
  /\ db.file.events[Len(db.file.events)].type = "DISPATCH"
  /\ resets > 0

\* ------------------------------------------------- the order of the phases

\* The calls cycle c has issued so far are those of the phase it is in: in
\* PLAN the one Strategy call and nothing else; in PROPOSE one Proposal call
\* more than Verification calls, each of those after its own Proposal call;
\* in VERIFY as many of one as of the other; and a plan to work with as soon
\* as the loop has begun.
CallsInOrder(c) ==
  /\ c.nStrategy <= 1
  /\ c.nVerify <= c.nPropose /\ c.nPropose <= c.nVerify + 1
  /\ c.pc = "plan" => c.nStrategy = 1 /\ c.nPropose = 0
  /\ c.pc = "propose" => c.nPropose = c.nVerify + 1 /\ c.attempts = c.nPropose
  /\ c.pc = "verify" => c.nPropose = c.nVerify /\ c.attempts = c.nPropose
  /\ c.pc \in {"propose", "verify"} => c.plan # NullPlan
  /\ c.nBalance > 0 => c.pc = "done" /\ c.result.success

\* The phase a cycle may go to from the phase it is in.
PhaseAfter(pc) ==
  CASE pc = "free" -> {"plan", "propose", "done"}
    [] pc = "plan" -> {"propose", "done"}
    [] pc = "propose" -> {"verify", "done"}
    [] pc = "verify" -> {"propose", "done"}
    [] pc = "done" -> {"free"}

\* C28: a cycle goes through PLAN, the PROPOSE/VERIFY loop, EXECUTE and
\* REBALANCE in this order and has at most one oracle call outstanding: a
\* Proposal call is issued when the plan is there and the Verification call
\* before it has come back, a Verification call when its Proposal call has;
\* the station and the track are added only in the step that follows the
\* last verdict, and the fleet is checked in that step, after them, on the
\* stations as they are with the new one.
C28_PhasesInOrder ==
  /\ [](\A s \in Slots : CallsInOrder(cyc[s]))
  /\ [][\A s \in Slots :
          cyc'[s] # cyc[s] =>
            /\ cyc'[s].pc \in PhaseAfter(cyc[s].pc)
            /\ cyc[s].pc # "free" /\ cyc'[s].pc # "free" =>
                 /\ cyc'[s].nStrategy = cyc[s].nStrategy
                 /\ cyc'[s].nPropose =
                      cyc[s].nPropose + (IF cyc'[s].pc = "propose" THEN 1 ELSE 0)
                 /\ cyc'[s].nVerify =
                      cyc[s].nVerify + (IF cyc'[s].pc = "verify" THEN 1 ELSE 0)
            /\ resets' = resets /\ Len(db'.stations) # Len(db.stations) =>
                 /\ cyc[s].pc = "verify" /\ cyc'[s].pc = "done"
                 /\ cyc'[s].nBalance = 1
                 /\ Len(db'.stations) = Len(db.stations) + 1
                 /\ Len(db'.tracks) = Len(db.tracks) + 1
                 /\ Len(db'.trains) =
                      Len(db.trains) +
                        (IF Len(db'.stations) > Len(db.trains) * TRAINS_PER_STATIONS
                         THEN 1 ELSE 0)]_vars

\* C28's case: a cycle asked the Strategy Oracle, had its first candidate
\* rejected and its second accepted, added the fourth station and, after
\* it, the second train.
C28_Witness ==
  \E s \in Slots :
    /\ cyc[s].pc = "done"
    /\ cyc[s].result.success
    /\ cyc[s].nStrategy = 1
    /\ cyc[s].nPropose = 2
    /\ cyc[s].nVerify = 2
    /\ cyc[s].nBalance = 1
    /\ Len(db.stations) = 4
    /\ Len(db.trains) = 2

\* ------------------------------------------------ the events of an attempt

\* This step appended exactly k events to the log (of which the table keeps
\* the newest EventWindow), and the first of them is a feedback event.
FeedbackFirstOf(k) ==
  LET new == db'.events
      n == Len(new)
  IN /\ k <= n
     /\ n = IF Len(db.events) + k <= EventWindow THEN Len(db.events) + k
           ELSE EventWindow
     /\ SubSeq(new, 1, n - k) = LastRows(db.events, n - k)
     /\ new[n - k + 1] = [type |-> "SYSTEM", message |-> "SELF-CORRECT"]

\* This step logs the feedback of the Verification Oracle before anything
\* else it logs (the end of the cycle, the station built, the train added).
\* The step that takes a verdict logs one event or two.
FeedbackLogged == \E k \in {1, 2} : FeedbackFirstOf(k)

\* Cycle s takes the reply of the Proposal Oracle and asks for the verdict.
RationaleStep(s) == cyc[s].pc = "propose" /\ cyc'[s].pc = "verify"

\* Cycle s takes a verdict of the Verification Oracle (the call came back
\* and its text parsed).
VerdictStep(s) ==
  /\ cyc[s].pc = "verify" /\ cyc'[s] # cyc[s]
  /\ ~(cyc'[s].pc = "done" /\ cyc'[s].result = Failure(VerifyErrorMsg))

\* C29, as stated: every attempt appends the rationale of its candidate in
\* the step that sends the verification request, and the feedback of the
\* Verification Oracle in the step that takes the verdict, whether the
\* candidate was accepted or rejected.
C29_TwoEventsPerAttempt ==
  [][\A s \in Slots :
       /\ RationaleStep(s) =>
            db' = addEvent(db, "AI_EXPANSION", "[THOUGHT] proposal")
       /\ VerdictStep(s) => FeedbackLogged]_vars

\* C29, as the code has it: the rationale is appended in the step that sends
\* the verification request; the feedback is appended in the step that
\* takes the verdict if and only if the verdict is not truthy.
C29_FeedbackOnRejectionOnly ==
  [][\A s \in Slots :
       /\ RationaleStep(s) =>
            db' = addEvent(db, "AI_EXPANSION", "[THOUGHT] proposal")
       /\ VerdictStep(s) => (FeedbackLogged <=> ~Truthy(cyc'[s].valid))]_vars

\* C29's case: the first cycle after boot has had its first candidate
\* accepted and built; the newest events are the directive, the rationale
\* and the construction, with no feedback between the last two.
C29_Witness ==
  \E s \in Slots :
    /\ cyc[s].pc = "done"
    /\ cyc[s].result.success
    /\ cyc[s].nVerify = 1
    /\ Truthy(cyc[s].valid)
    /\ db.events = << [type |-> "COMMANDER", message |-> "STRATEGY"],
                      [type |-> "AI_EXPANSION", message |-> "[THOUGHT] proposal"],
                      [type |-> "CONSTRUCTION", message |-> "Built"] >>

\* ------------------------------------------------- the dispatch report

\* The answer to the dispatch of this step says that the way is `tenths`
\* tenths of a distance unit and takes `minutes` minutes.
Reports(tenths, minutes) ==
  /\ lastDispatch'.body.success
  /\ lastDispatch'.body.distanceKm = tenths
  /\ lastDispatch'.body.etaMinutes = minutes

\* The whole number v is the nearest to root / (2 * den), the larger of the
\* two if two are equally near, where root is the square root of sq.
NearestToHalfRoot(v, sq, den) ==
  /\ v >= 0
  /\ v > 0 => ((2 * v - 1) * den) * ((2 * v - 1) * den) <= sq
  /\ ((2 * v + 1) * den) * ((2 * v + 1) * den) > sq

\* The answer to the dispatch of this step carries the distance and the
\* minutes of the formula: the pixel distance from where the train was to
\* the target, over 4, to one decimal; and that distance (not rounded) over
\* the speed, times 60, to the nearest minute.
ReportAsComputed ==
  LET train == lastDispatch'.train
      target == db.stations[getStation(db.stations, lastDispatch'.targetStationId)]
      dx == target.x - train.x
      dy == target.y - train.y
      n == dx * dx + dy * dy
  IN /\ lastDispatch'.body.success
     /\ NearestToHalfRoot(lastDispatch'.body.distanceKm, 25 * n, 1)
     /\ NearestToHalfRoot(lastDispatch'.body.etaMinutes, 900 * n, train.speed_kmh)

\* The dispatch of this step is that of the seed: the train of the seed,
\* where the seed put it, sent to the second station of the seed.
SeedDispatch ==
  /\ lastDispatch'.train = SeedTrains[1]
  /\ db.stations[getStation(db.stations, lastDispatch'.targetStationId)]
       = SeedStations[2]

\* C30, as stated: a dispatch that is accepted reports the distance and the
\* minutes of the formula, and for the seed 150.0 and 112 minutes.
C30_ReportsSeed112 ==
  [][DispatchHandled /\ lastDispatch'.res = Dispatched =>
       /\ ReportAsComputed
       /\ SeedDispatch => Reports(1500, 112)]_vars

\* C30, amended: a dispatch that is accepted reports the distance and the
\* minutes of the formula, half a minute counting as a whole one, and for
\* the seed 150.0 and 113 minutes (112.5 rounded); an answer that is an
\* error reports neither.
C30_ReportsSeed113 ==
  [][DispatchHandled =>
       IF lastDispatch'.res = Dispatched
       THEN /\ ReportAsComputed
            /\ SeedDispatch => Reports(1500, 113)
       ELSE lastDispatch'.body = NoReport]_vars

\* C30's case: the train of the seed has been sent from the first station to
\* the second, and the answer was 150.0 and 113 minutes.
C30_Witness ==
  /\ lastDispatch.res = Dispatched
  /\ lastDispatch.train = SeedTrains[1]
  /\ lastDispatch.targetStationId = 2
  /\ db.stations[2] = SeedStations[2]
  /\ lastDispatch.body = [success |-> TRUE, distanceKm |-> 1500, etaMinutes |-> 113]

\* ------------------------------------------------ the identifier returned

\* The station and the track the committing step of cycle s has added.
NewStation == db'.stations[Len(db'.stations)]
NewTrack == db'.tracks[Len(db'.tracks)]

\* C31, as stated: the stationId a successful cycle returns is the id under
\* which its station is stored, is the id of no station that was there
\* before, and is the new end of the track the cycle added.
C31_ReturnsStoredId ==
  [][\A s \in Slots :
       Committed(s) =>
         /\ Len(db'.stations) = Len(db.stations) + 1
         /\ cyc'[s].result.stationId = NewStation.id
         /\ cyc'[s].result.stationId \notin StationIds(db)
         /\ NewTrack.station_b_id = cyc'[s].result.stationId]_vars

\* C31, as the code has it: the station is stored under an id no station had
\* before; the stationId returned is what last_insert_rowid() gave after the
\* save, that id or 0; and whichever it is, it is the second end of the
\* track.
C31_ReturnsRowidAfterSave ==
  [][\A s \in Slots :
       Committed(s) =>
         /\ Len(db'.stations) = Len(db.stations) + 1
         /\ NewStation.id \notin StationIds(db)
         /\ cyc'[s].result.stationId \in {NewStation.id, 0}
         /\ cyc'[s].result.stationId \notin StationIds(db)
         /\ NewTrack.station_b_id = cyc'[s].result.stationId]_vars

\* C31's case: the second cycle to commit has stored station 4 and returned
\* stationId 0.
C31_Witness ==
  \E s \in Slots :
    /\ cyc[s].pc = "done"
    /\ cyc[s].result.success
    /\ cyc[s].result.stationId = 0
    /\ Len(db.stations) = 4
    /\ db.stations[4].id = 4
    /\ db.tracks[Len(db.tracks)].station_b_id = 0

\* ------------------------------------------------------ the state read

\* C32, as stated: the answer of the read-state operation has the stations,
\* the tracks, the trains and the newest events, and the page that has read
\* it holds the tracks of the store as they were when it read.
C32_StateHasTracks ==
  /\ DOMAIN stateRoute(db) = {"stations", "tracks", "trains", "events"}
  /\ refreshDue = 0 /\ (\A t \in TickSlots : ticks[t].pc = "free")
       /\ stationsC = getStations(db)
       => tracksC.defined /\ tracksC.rows = getTracks(db)

\* C32, as the code has it: the answer has the stations, the trains and the
\* newest events, newest first, and no tracks; the page's `tracks` is
\* undefined from its first read on.
C32_StateWithoutTracks ==
  /\ DOMAIN stateRoute(db) = {"stations", "trains", "events"}
  /\ stateRoute(db).stations = db.stations
  /\ stateRoute(db).trains = db.trains
  /\ Len(stateRoute(db).events) = Len(db.events)
  /\ stateRoute(db).events[1] = db.events[Len(db.events)]
  /\ ~tracksC.defined

\* C32's case: the store has tracks that the seed has not; the page has read
\* the state after a dispatch (it shows the train moving and holds the
\* stations of the store), and it holds no tracks.
C32_Witness ==
  /\ Len(getTracks(db)) > Len(SeedTracks)
  /\ lastDispatch.res = Dispatched
  /\ refreshDue = 0
  /\ \E k \in 1..Len(arrays[cur]) :
       /\ arrays[cur][k].id = lastDispatch.trainId
       /\ arrays[cur][k].status = "moving"
  /\ stationsC = getStations(db)
  /\ Len(stationsC) > Len(SeedStations)
  /\ ~tracksC.defined

\* ------------------------------------------------- stations and trains

\* C33: from the seed on, and from a reset on, the stations are never more
\* than three a train: not after a cycle that has committed a station and
\* checked the fleet, and so in no state between the cycles, whatever is
\* dispatched and wherever the trains are.
C33_NodesWithinRatio ==
  Len(getStations(db)) <= TRAINS_PER_STATIONS * Len(getTrains(db))

\* C33's case: with no reset, the second cycle has committed the fourth
\* station and its fleet check has added the second train, of speed 159, at
\* that station.
C33_Witness ==
  \E s \in Slots :
    /\ resets = 0
    /\ cyc[s].pc = "done"
    /\ cyc[s].result.success
    /\ cyc[s].acc = 2
    /\ Len(getStations(db)) = TRAINS_PER_STATIONS + 1
    /\ Len(getTrains(db)) = 2
    /\ db.trains[2].current_station_id = db.stations[Len(db.stations)].id
    /\ db.trains[2].speed_kmh = SPEED_BASE + SPEED_SPAN - 1

\* ------------------------------------------------------- progress of a trip

\* The row of train m in the store, and the object the page shows for it.
StoredTrain(m) == db.trains[getTrain(db, m)]
ShownTrain(list, m) == list[CHOOSE k \in 1..Len(list) : list[k].id = m]
Shows(list, m) == \E k \in 1..Len(list) : list[k].id = m

\* The store has train m on its way to station s; it has it idle at s.
OnTheWay(m, s) ==
  /\ getTrain(db, m) # 0
  /\ StoredTrain(m).status = "moving"
  /\ StoredTrain(m).target_station_id = s

ArrivedAt(m, s) ==
  /\ getTrain(db, m) # 0
  /\ StoredTrain(m).status = "idle"
  /\ StoredTrain(m).current_station_id = s

\* In this step the page's train m, moving to the same station before and
\* after, is further from it after than before.
ThrownBack(m) ==
  /\ Shows(arrays[cur], m) /\ Shows(arrays'[cur'], m)
  /\ LET o == ShownTrain(arrays[cur], m)
         n == ShownTrain(arrays'[cur'], m)
     IN /\ Moves(o, stationsC) /\ Moves(n, stationsC')
        /\ n.target_station_id = o.target_station_id
        /\ TargetOf(n, stationsC') = TargetOf(o, stationsC)
        /\ Remaining(n, TargetOf(n, stationsC')) > Remaining(o, TargetOf(o, stationsC))

\* The step is a fetchState that assigns the answer of the server: that of
\* a tick after its update request, or that of dispatchTrainTo.
FetchAssigns ==
  \/ \E t \in TickSlots : ticks[t].pc = "state" /\ ticks'[t].pc # "state"
  \/ refreshDue' = refreshDue - 1

\* The trains of the store.
TrainIds == {db.trains[k].id : k \in 1..Len(db.trains)}

\* The latest dispatch request was accepted; the train it named is idle at
\* the station it named.
LastSent == lastDispatch.res = Dispatched
LastArrived == ArrivedAt(lastDispatch.trainId, lastDispatch.targetStationId)

\* C34, as stated: with ticks that keep coming and no reset, a train that
\* was dispatched is in the end idle at its target (said here of the train
\* of the latest request, whose trip no later dispatch replaces), and no
\* step throws the page's train back from where the ticks have taken it.
C34_DispatchedArrives ==
  /\ LastSent ~> (LastArrived \/ ~LastSent)
  /\ [][\A m \in TrainIds : ~ThrownBack(m)]_vars

\* C34, the first half alone.
C34_EveryTripEnds == LastSent ~> (LastArrived \/ ~LastSent)

\* C34, as the code has it: a train is thrown back only by a fetchState, and
\* every fetchState leaves the page with the rows of the store, in which a
\* train on its way is where it left.
C34_ThrownBackByRefreshOnly ==
  [][/\ \A m \in TrainIds : ThrownBack(m) => FetchAssigns
     /\ FetchAssigns =>
          \A m \in TrainIds :
            /\ Shows(arrays'[cur'], m)
            /\ ShownTrain(arrays'[cur'], m) = ShownTrain(FromServer(getTrains(db')), m)]_vars

\* C34's case: train 1 is on its way on the page and in the store, and the
\* page, after the fetchState of train 2's arrival, shows it where the store
\* has it, at its departure, with all of its way before it again.
C34_Witness ==
  /\ OnTheWay(1, 3)
  /\ ArrivedAt(2, 1)
  /\ \A t \in TickSlots : ticks[t].pc = "free"
  /\ refreshDue = 0
  /\ Shows(arrays[cur], 1)
  /\ Moves(ShownTrain(arrays[cur], 1), stationsC)
  /\ ShownTrain(arrays[cur], 1).x = StoredTrain(1).x * Units
  /\ ShownTrain(arrays[cur], 1).y = StoredTrain(1).y * Units

\* --------------------------------------------------- a dispatch is kept

\* The step is the handling of a dispatch request for train m that was
\* accepted.
DispatchedAnew(m) ==
  /\ DispatchHandled
  /\ lastDispatch'.trainId = m
  /\ lastDispatch'.res = Dispatched

\* The step is the handling of an update request for train m: the request
\* of a tick that was waiting for it.
UpdateOfTick(t, m) ==
  /\ ticks[t].pc = "update" /\ ticks'[t].pc = "state"
  /\ ticks[t].req.id = m

\* C35, as stated: a train the store has on its way to a station stays so
\* until the store is given its arrival at that station (or the train is
\* dispatched anew); an update of an earlier trip does not end the trip.
C35_DispatchKept ==
  [][\A m \in TrainIds, s \in StationIds(db) :
       OnTheWay(m, s) /\ ~OnTheWay(m, s)' =>
         ArrivedAt(m, s)' \/ DispatchedAnew(m)]_vars

\* C35, as the code has it: the trip of a train ends in the store with a new
\* dispatch of the train or with any update request that names the train,
\* which leaves it idle at the station the request names, whether or not
\* that is the target the train has in the store.
C35_AnyUpdateEndsTrip ==
  [][\A m \in TrainIds, s \in StationIds(db) :
       OnTheWay(m, s) /\ ~OnTheWay(m, s)' =>
         \/ DispatchedAnew(m)
         \/ \E t \in TickSlots :
              /\ UpdateOfTick(t, m)
              /\ ArrivedAt(m, ticks[t].req.current_station_id)'
              /\ StoredTrain(m)'.target_station_id = NULL
              /\ StoredTrain(m)'.departure_time = NULL]_vars

\* C35's case: the latest request sent train 1 to station 3 and was
\* accepted; the update of the trip before it has come after it, and the
\* store has the train idle at station 4, with no target.
C35_Witness ==
  /\ lastDispatch.trainId = 1
  /\ lastDispatch.targetStationId = 3
  /\ lastDispatch.res = Dispatched
  /\ lastDispatch.train.status = "moving"
  /\ ArrivedAt(1, 4)
  /\ StoredTrain(1).target_station_id = NULL

\* ------------------------------------------------------ cycles in flight

\* The cycles that have passed the throttle and are waiting for an oracle.
Awaiting == {s \in Slots : cyc[s].pc \in {"plan", "propose", "verify"}}

\* C36, as stated: at most one cycle is waiting for an oracle at any time.
C36_OneCycleInFlight == Cardinality(Awaiting) <= 1

\* C36, as the code has it: two cycles that are waiting for an oracle
\* together began at least the cooldown apart.
C36_InFlightCooldownApart ==
  \A s, u \in Awaiting :
    s # u => Abs(cyc[s].now - cyc[u].now) >= COOLDOWN_MS

\* C36's case: a cycle is still waiting for the verdict on its candidate
\* when the next one, begun a cooldown later, waits for its proposal.
C36_Witness ==
  \E s, u \in Slots :
    /\ cyc[s].pc = "verify"
    /\ cyc[u].pc = "propose"
    /\ cyc[u].now >= cyc[s].now + COOLDOWN_MS

\* ------------------------------------------------- the graph stays joined

\* The stations one track away from a station of S, and S itself.
OneTrackFrom(d, S) ==
  S \cup {d.tracks[i].station_b_id :
            i \in {j \in 1..Len(d.tracks) : d.tracks[j].station_a_id \in S}}
    \cup {d.tracks[i].station_a_id :
            i \in {j \in 1..Len(d.tracks) : d.tracks[j].station_b_id \in S}}

\* The stations joined to the first station of the table by tracks: what as
\* many rounds of following tracks as there are stations reach from it.
JoinedToFirst(d) ==
  LET Reached[n \in Nat] ==
        IF n = 0 THEN {d.stations[1].id} ELSE OneTrackFrom(d, Reached[n - 1])
  IN Reached[Len(d.stations)] \cap StationIds(d)

\* C37, as stated: every station is joined to the first by tracks, and the
\* step that commits a candidate stores a track between the new station and
\* a station that was there before.
C37_StaysConnected ==
  /\ [](JoinedToFirst(db) = StationIds(db))
  /\ [][\A s \in Slots :
          Committed(s) =>
            /\ NewestStation.id \in {NewestTrack.station_a_id, NewestTrack.station_b_id}
            /\ {NewestTrack.station_a_id, NewestTrack.station_b_id} \ {NewestStation.id}
                 \subseteq StationIds(db)
            /\ NewestTrack.station_a_id # NewestTrack.station_b_id]_vars

\* C37, as the code has it: the track of a committed candidate joins the new
\* station to an older one when the id addStation returned is the stored one
\* and connectToId does not name the new station itself; its second end is
\* the stored id or 0, and its first end is the new station only when
\* connectToId is that station's id.
C37_JoinedWhenIdKeptAndOlder ==
  [][\A s \in Slots :
       Committed(s) =>
         LET n == Number(cyc[s].proposal.connectToId)
             a == NewestTrack.station_a_id
             b == NewestTrack.station_b_id
         IN /\ b \in {NewestStation.id, 0}
            /\ a = NewestStation.id => ~n.nan /\ n.n = NewestStation.id
            /\ b = NewestStation.id /\ ~(~n.nan /\ n.n = NewestStation.id)
                 => /\ a \in StationIds(db)
                    /\ JoinedToFirst(db) = StationIds(db)
                         => JoinedToFirst(db') = StationIds(db')]_vars

\* C37's failing case: addStation returned the stored id, the candidate's
\* connectToId was that id, and the committed station is joined to no other.
C37_Witness ==
  \E s \in Slots :
    /\ cyc[s].pc = "done"
    /\ cyc[s].result.success
    /\ cyc[s].result.stationId = db.stations[Len(db.stations)].id
    /\ cyc[s].offered.connectToId = JNum(cyc[s].result.stationId)
    /\ cyc[s].result.stationId \notin JoinedToFirst(db)

\* ------------------------------------------------ the directive in the cache

\* C38, as stated: the directive in the cache is never one without the
\* strategy text, and no cycle that takes the directive from the cache fails
\* on reading it.
C38_CacheWellFormed ==
  /\ [](PlanTruthy(dailyPlan) => ~includesThrows(dailyPlan))
  /\ [][\A s \in Slots :
          RanPlan(s) /\ cyc'[s].nStrategy = 0 =>
            ~(cyc'[s].pc = "done" /\ cyc'[s].result.error = TypeErrorMsg)]_vars

\* C38, as the code has it: a cycle that runs PLAN while an object is in the
\* cache and the interval has not run out takes that object as it is; it
\* goes on to its first proposal request when the object has the strategy
\* text, and returns the TypeError when it has not; either way it calls no
\* Strategy Oracle and the cache is left as it was.
C38_CachedAsParsed ==
  [][\A s \in Slots :
       RanPlan(s) /\ CacheFresh(dailyPlan, clock', lastBriefingTime) =>
         /\ cyc'[s].nStrategy = 0
         /\ UNCHANGED cacheVars
         /\ IF includesThrows(dailyPlan)
            THEN /\ cyc'[s].pc = "done"
                 /\ ~cyc'[s].result.success
                 /\ cyc'[s].result.error = TypeErrorMsg
            ELSE cyc'[s].pc = "propose" /\ cyc'[s].plan = dailyPlan]_vars

\* C38's failing case: a directive without the strategy text is in the
\* cache, and a cycle begun a cooldown or more after it was asked for took it
\* from there and returned the TypeError.
C38_Witness ==
  \E s \in Slots :
    /\ PlanTruthy(dailyPlan)
    /\ dailyPlan.strategy = Undef
    /\ cyc[s].pc = "done"
    /\ cyc[s].nStrategy = 0
    /\ cyc[s].acc > 1
    /\ cyc[s].result.error = TypeErrorMsg
    /\ clock - lastBriefingTime >= COOLDOWN_MS
    /\ clock - lastBriefingTime < BRIEFING_INTERVAL

\* ------------------------------------------------- the result of a commit

\* The step is the one in which the cycle in slot s stores its candidate as a
\* station and returns.
Built(s) ==
  /\ cyc[s].pc = "verify"
  /\ cyc'[s].pc = "done"
  /\ Len(db'.stations) = Len(db.stations) + 1

\* C39, as stated: the cycle that stored a station returns success, the id of
\* that station and no error, and the route answers 200 with that result.
C39_OwnFieldsKept ==
  [][\A s \in Slots :
       Built(s) =>
         /\ cyc'[s].result.success
         /\ cyc'[s].result.stationId = NewestStation.id
         /\ cyc'[s].result.error = ""
         /\ expandRoute(cyc'[s].result) = [status |-> 200, body |-> cyc'[s].result]]_vars

\* C39, as the code has it: each of the three fields of the result is the
\* candidate's when the candidate has a field of that name, and else the
\* orchestrator's own (true, the id addStation returned, no error); the route
\* answers 429 exactly when the result has an error text, and 200 with a
\* result that may say success: false.
C39_CandidateFieldsWin ==
  [][\A s \in Slots :
       Built(s) =>
         LET p == cyc[s].proposal
             res == cyc'[s].result
         IN /\ res.success = IF "success" \in DOMAIN p THEN p.success ELSE TRUE
            /\ res.error = IF "error" \in DOMAIN p THEN p.error ELSE ""
            /\ IF "stationId" \in DOMAIN p
               THEN res.stationId = p.stationId
               ELSE res.stationId \in {NewestStation.id, 0}
            /\ expandRoute(res).status = IF res.error = "" THEN 200 ELSE 429
            /\ expandRoute(res).status = 429 => ~expandRoute(res).body.success
            /\ expandRoute(res).body.success
                 => expandRoute(res).status = 200 /\ "success" \notin DOMAIN p]_vars

\* C39's failing case: the candidate "Alpha" came with an error text, it was
\* stored as station 3 with its track, and the cycle's result carries that
\* text, so the caller is answered 429.
C39_Witness ==
  \E s \in Slots :
    /\ cyc[s].pc = "done"
    /\ "error" \in DOMAIN cyc[s].offered
    /\ db.stations[Len(db.stations)].name = cyc[s].offered.name
    /\ db.stations[Len(db.stations)].id = 3
    /\ Len(db.tracks) = 2
    /\ cyc[s].result.error = cyc[s].offered.error
    /\ expandRoute(cyc[s].result).status = 429

\* ------------------------------------------------------ the auto-dispatch

\* The step is a round of the auto-dispatch.
AutoRound == auto'.rounds = auto.rounds + 1

\* The trains the page holds as idle.
IdleOnPage == {k \in 1..Len(arrays[cur]) : arrays[cur][k].status = "idle"}

\* The stations joined to station a by a track of the store.
Adjacent(a) ==
  {db.tracks[i].station_b_id : i \in {j \in 1..Len(db.tracks) : db.tracks[j].station_a_id = a}}
    \cup {db.tracks[i].station_a_id :
            i \in {j \in 1..Len(db.tracks) : db.tracks[j].station_b_id = a}}

\* C40, as stated: in a round every train the page holds as idle is sent its
\* own request, which names that train and a station next to the one it
\* stands at.
C40_EachIdleItsOwnRequest ==
  [][AutoRound =>
       /\ \A i \in 1..Len(auto'.sent) : auto'.sent[i].trainId = auto'.sent[i].for
       /\ \A k \in IdleOnPage :
            \E i \in 1..Len(auto'.sent) :
              /\ auto'.sent[i].for = arrays[cur][k].id
              /\ auto'.sent[i].trainId = arrays[cur][k].id
              /\ auto'.sent[i].targetStationId
                   \in Adjacent(arrays[cur][k].current_station_id)]_vars

\* C40, as the code has it: the page has no tracks, so a round sends no
\* request at all; with a train the page holds as idle it ends in a
\* TypeError at that train, and without one it does nothing.
C40_RoundSendsNothing ==
  [][AutoRound =>
       /\ ~tracksC.defined
       /\ auto'.sent = << >>
       /\ auto'.threw <=> IdleOnPage # {}]_vars

\* C40's failing case: the first round ran with both trains idle on the page
\* and in the store, it threw, and no request was sent.
C40_Witness ==
  /\ auto.rounds = 1
  /\ auto.threw
  /\ auto.sent = << >>
  /\ dispatches = 0
  /\ Cardinality(IdleOnPage) = 2
  /\ \A k \in 1..Len(db.trains) : db.trains[k].status = "idle"

====
